---------------------------- MODULE Spec2Model ----------------------------
(***************************************************************************)
(* A model of the Destiny 2 character viewer.                              *)
(*                                                                         *)
(*   BungieAuth.js  (src/vite.config.js, lines 27-420)                     *)
(*       parseEquipmentForLoader : profile snapshot -> armor pieces        *)
(*   index.js       (src/unnamed/part_000, lines 1-565)                    *)
(*       loadShaderDyes, the per-character load loop of init               *)
(*                                                                         *)
(* Two specifications:                                                     *)
(*   SpecParse  applies parseEquipmentForLoader to a snapshot drawn from   *)
(*              a bounded set of snapshots;                                *)
(*   Spec       runs character loads (the callback that init hands to      *)
(*              showCharacterSelector) against the manifest.               *)
(*                                                                         *)
(* JavaScript values: a hash is a number or, for the bucket hashes (which  *)
(* exceed 32 bits and are only compared), a string of its digits; an       *)
(* array is a sequence (JS index i is TLA+ index i+1); an object keyed by  *)
(* ids is a function whose DOMAIN is the set of keys present, and an       *)
(* optional property is a record field that is present or not; a shader's  *)
(* material dye is a string naming it, and null is the value Null.         *)
(***************************************************************************)
EXTENDS Integers, Sequences, FiniteSets, TLC

VARIABLES
    \* ---- SpecParse: one call of parseEquipmentForLoader
    profileData,    \* the profile snapshot (getCharacterEquipment's Response)
    characterId,    \* the target character id
    result,         \* what the call produced: none yet, a return, or a throw
    \* ---- Spec: character loads against the manifest
    loads,          \* per load: the state of the async callback of init
    scene,          \* the model objects that are children of the scene
    status,         \* the text of the status element
    modelLoaded,    \* window.modelLoaded
    loadingEl,      \* the #loading overlay: "shown", "none" (hidden) or "absent"
    tgxReady,       \* window.THREE and THREE.TGXLoader are defined
    store,          \* manifest: what the backing stores hold for each hash
    cache,          \* manifest: hash -> the outcome cached for it
    inflight,       \* manifest: the store-chain walks in flight
    walks,          \* ghost: hash -> number of store-chain walks started
    calls,          \* ghost: hash -> number of manifest.getAsset calls
    resolved,       \* ghost: the hashes some walk resolved, found or not found
    warned,         \* ghost: hash -> "no gear asset data" warnings logged
    \* ---- SpecBones: the mesh creation of loadModel
    bones,          \* geometry.bones, the bone descriptors of the geometry
    mesh,           \* what the loader callback made of them: none yet, or a mesh
    \* ---- SpecFrame: the framing of addGroupToScene
    box,            \* the Box3 that setFromObject(group) computed
    placed,         \* the group's scale and position and the camera's, once set
    \* ---- SpecAuth: BungieAuth.js and the start of init
    tokenStore,     \* localStorage['bungie_oauth_tokens']: <<>> or <<tokens>>
    memberStore,    \* localStorage['bungie_membership']: <<>> or <<membership>>
    now,            \* Date.now()
    reqs,           \* per caller: its call of an authenticated API function
    boot,           \* where init() stands
    \* ---- SpecScene: addGroupToScene called on its own
    called,         \* ghost: the group and the framing outcome of the last call
    \* ---- SpecDye: DestinyMaterial.js, a material and its dye updates
    material,       \* <<>> or the material createDestinyMaterial returned
    dyed,           \* ghost: the arguments of the last updateDestinyDye call
    \* ---- SpecOAuth: BungieAuth.js, the authorization flow
    oauthState,     \* sessionStorage['oauth_state']: <<>> or <<state>>
    location,       \* the page the browser shows, and its query parameters
    cb              \* the handleOAuthCallback call of the page

parseVars == <<profileData, characterId, result>>
loadVars  == <<loads, scene, status, modelLoaded, loadingEl, tgxReady,
               store, cache, inflight, walks, calls, resolved,
               warned>>
boneVars  == <<bones, mesh>>
frameVars == <<box, placed>>
authVars  == <<tokenStore, memberStore, now, reqs, boot>>
sceneVars == <<called>>
dyeVars   == <<material, dyed>>
oauthVars == <<oauthState, location, cb>>
extraVars == <<sceneVars, dyeVars, oauthVars>>
unitVars  == <<boneVars, frameVars, authVars, extraVars>>
vars      == <<profileData, characterId, result,
               loads, scene, status, modelLoaded, loadingEl, tgxReady,
               store, cache, inflight, walks, calls, resolved,
               warned, unitVars>>

\* The parts of the program a specification does not run are at rest.
BonesIdle == bones = <<>> /\ mesh = <<>>
FrameIdle == box = <<>> /\ placed = <<>>
AuthIdle  ==
    /\ tokenStore = <<>> /\ memberStore = <<>> /\ now = 0
    /\ reqs = <<>> /\ boot = ""
SceneIdle == called = <<>>
DyeIdle   == material = <<>> /\ dyed = <<>>
OAuthIdle == oauthState = <<>> /\ location = <<>> /\ cb = <<>>
ExtraIdle == SceneIdle /\ DyeIdle /\ OAuthIdle
UnitsIdle == BonesIdle /\ FrameIdle /\ AuthIdle /\ ExtraIdle

Null == <<"null">>

(***************************************************************************)
(*                 BungieAuth.js : parseEquipmentForLoader                 *)
(***************************************************************************)

\* const ARMOR_BUCKETS = {...}: for...in visits the keys in insertion order.
ARMOR_BUCKETS ==
    << [name |-> "HELMET",     hash |-> "3448274439"],
       [name |-> "GAUNTLETS",  hash |-> "3551918588"],
       [name |-> "CHEST",      hash |-> "14239492"],
       [name |-> "LEGS",       hash |-> "20886954"],
       [name |-> "CLASS_ITEM", hash |-> "1585787867"] >>

\* The first and last socket index scanned for a shader plug.
ShaderSocketFirst == 3
ShaderSocketLast  == 5

\* sockets[i] of a JS array: undefined past the end.
HasSocket(sockets, i) == (i + 1) \in DOMAIN sockets

\* Variant: tests isEnabled, as the ornament loop above it does.
ShaderPlugAtEnabled(sockets, i) ==
    /\ HasSocket(sockets, i)
    /\ sockets[i + 1].plugHash # 0
    /\ sockets[i + 1].isEnabled

\* sockets[i]?.plugHash && sockets[i]?.isVisible
ShaderPlugAt(sockets, i) ==
    /\ HasSocket(sockets, i)
    /\ sockets[i + 1].plugHash # 0
    /\ sockets[i + 1].isVisible

\* for (let i = 3; i <= 5; i++) { if (...) { shaderHash = ...; break; } }
RECURSIVE ScanShader(_, _)
ScanShader(sockets, i) ==
    IF i > ShaderSocketLast THEN 0
    ELSE IF ShaderPlugAt(sockets, i) THEN sockets[i + 1].plugHash
    ELSE ScanShader(sockets, i + 1)

\* let shaderHash = 0; const sockets = itemSockets[id]?.sockets; if (sockets) ...
ShaderHashOf(itemSockets, itemInstanceId) ==
    IF itemInstanceId \in DOMAIN itemSockets
    THEN ScanShader(itemSockets[itemInstanceId], ShaderSocketFirst)
    ELSE 0

\* Array.prototype.find: the index of the first element with the key, 0 if none.
FindBucket(items, bucketHash) ==
    LET hits == {j \in DOMAIN items : items[j].bucketHash = bucketHash}
    IN  IF hits = {} THEN 0 ELSE CHOOSE j \in hits : \A k \in hits : j <= k

\* Variant: pe => pe.itemHash = itemHash (an assignment, truthy for every entry).
FindPeerAssign(peerViewEquipment, itemHash) ==
    IF Len(peerViewEquipment) = 0 THEN 0 ELSE 1

\* peerViewEquipment.find(pe => pe.itemHash === itemHash)
FindPeer(peerViewEquipment, itemHash) ==
    LET hits == {j \in DOMAIN peerViewEquipment :
                    peerViewEquipment[j].itemHash = itemHash}
    IN  IF hits = {} THEN 0 ELSE CHOOSE j \in hits : \A k \in hits : j <= k

\* const dyesForItem = peerItem?.dyes || [];
DyesForItem(peerViewEquipment, itemHash) ==
    LET j == FindPeer(peerViewEquipment, itemHash)
    IN  IF j = 0 THEN <<>>
        ELSE IF "dyes" \notin DOMAIN peerViewEquipment[j] THEN <<>>
        ELSE peerViewEquipment[j].dyes

\* equipment[characterId]?.items || []
ItemsOf(pd, cid) ==
    IF cid \in DOMAIN pd.characterEquipment THEN pd.characterEquipment[cid] ELSE <<>>

\* (renderData[characterId]?.peerView || {}).equipment || []
PeerViewEquipmentOf(pd, cid) ==
    IF cid \in DOMAIN pd.characterRenderData THEN pd.characterRenderData[cid] ELSE <<>>

SlotEntry(pd, cid, k, item) ==
    [armorItem  |-> [bucket     |-> ARMOR_BUCKETS[k].name,
                     itemHash   |-> item.itemHash,
                     instanceId |-> item.itemInstanceId],
     shaderHash |-> ShaderHashOf(pd.itemSockets, item.itemInstanceId),
     dyes       |-> DyesForItem(PeerViewEquipmentOf(pd, cid), item.itemHash)]

\* Variant: the dyes of an item are pushed only when it has some.
PushDyed(acc, e) ==
    [armorItems   |-> Append(acc.armorItems, e.armorItem),
     shaderHashes |-> Append(acc.shaderHashes, e.shaderHash),
     itemDyes     |-> IF e.dyes = <<>> THEN acc.itemDyes
                      ELSE Append(acc.itemDyes, e.dyes)]

\* armorItems.push(...); shaderHashes.push(...); itemDyes.push(...)
Push(acc, e) ==
    [armorItems   |-> Append(acc.armorItems, e.armorItem),
     shaderHashes |-> Append(acc.shaderHashes, e.shaderHash),
     itemDyes     |-> Append(acc.itemDyes, e.dyes)]

\* Variant: a slot with no equipped item pushes a placeholder entry.
SlotStepPadded(acc, pd, cid, k) ==
    LET items == ItemsOf(pd, cid)
        j     == FindBucket(items, ARMOR_BUCKETS[k].hash)
    IN  IF j = 0
        THEN Push(acc, [armorItem  |-> [bucket |-> ARMOR_BUCKETS[k].name,
                                        itemHash |-> 0, instanceId |-> 0],
                        shaderHash |-> 0, dyes |-> <<>>])
        ELSE Push(acc, SlotEntry(pd, cid, k, items[j]))

\* One pass of the for...in body: what the three arrays are after bucket k.
SlotStep(acc, pd, cid, k) ==
    LET items == ItemsOf(pd, cid)
        j     == FindBucket(items, ARMOR_BUCKETS[k].hash)
    IN  IF j = 0 THEN acc ELSE Push(acc, SlotEntry(pd, cid, k, items[j]))

BucketIndex(bucketHash) ==
    LET ks == {k \in DOMAIN ARMOR_BUCKETS : ARMOR_BUCKETS[k].hash = bucketHash}
    IN  IF ks = {} THEN 0 ELSE CHOOSE k \in ks : TRUE

\* Variant: the loop runs over the equipped items, in their order, and keeps
\* each one whose bucket is an armor bucket.
RECURSIVE ItemScan(_, _, _)
ItemScan(pd, cid, n) ==
    IF n = 0
    THEN [armorItems |-> <<>>, shaderHashes |-> <<>>, itemDyes |-> <<>>]
    ELSE LET item == ItemsOf(pd, cid)[n]
             k    == BucketIndex(item.bucketHash)
         IN  IF k = 0 THEN ItemScan(pd, cid, n - 1)
             ELSE Push(ItemScan(pd, cid, n - 1), SlotEntry(pd, cid, k, item))
SlotScanByItems(pd, cid, k) == ItemScan(pd, cid, Len(ItemsOf(pd, cid)))

\* for (const bucketName in ARMOR_BUCKETS) {...}: buckets 1..k done.
RECURSIVE SlotScan(_, _, _)
SlotScan(pd, cid, k) ==
    IF k = 0
    THEN [armorItems |-> <<>>, shaderHashes |-> <<>>, itemDyes |-> <<>>]
    ELSE SlotStep(SlotScan(pd, cid, k - 1), pd, cid, k)

\* The whole function. characters[characterId] is read without a check, so
\* building the returned object dereferences undefined for an absent
\* character: a TypeError, thrown after the slot scan.
parseEquipmentForLoader(pd, cid) ==
    LET acc == SlotScan(pd, cid, Len(ARMOR_BUCKETS))
    IN  IF cid \notin DOMAIN pd.characters
        THEN [kind |-> "throw", error |-> "TypeError"]
        ELSE [kind              |-> "return",
              character         |-> pd.characters[cid],
              itemHashes        |-> [n \in DOMAIN acc.armorItems |->
                                        acc.armorItems[n].itemHash],
              shaderHashes      |-> acc.shaderHashes,
              armorDetails      |-> acc.armorItems,
              itemDyes          |-> acc.itemDyes,
              peerViewEquipment |-> PeerViewEquipmentOf(pd, cid)]

(***************************************************************************)
(*            The snapshots parseEquipmentForLoader is applied to          *)
(***************************************************************************)

MaxItems    == 2    \* equipped items listed for the character
MaxPeer     == 2    \* entries of peerView.equipment
SocketCount == 7    \* sockets of a full socket array (indices 0..6)

CharIds     == {"c1", "c2"}
ItemHashes  == {101, 102}
\* The five armor buckets and one that is not armor (kinetic weapons).
BucketHashes ==
    {ARMOR_BUCKETS[k].hash : k \in DOMAIN ARMOR_BUCKETS} \cup {"1498876634"}

SeqsUpTo(S, n) == UNION {[1..m -> S] : m \in 0..n}

\* Equipped-item lists; the instance id of an item is unique (its position).
ItemLists ==
    {[j \in DOMAIN l |-> [bucketHash     |-> l[j][1],
                          itemHash       |-> l[j][2],
                          itemInstanceId |-> j]] :
        l \in SeqsUpTo(BucketHashes \X ItemHashes, MaxItems)}

\* A socket: empty, holding a plug that is not visible, or a visible plug.
EmptySocket     == [plugHash |-> 0, isEnabled |-> FALSE, isVisible |-> TRUE]
HiddenPlug(h)   == [plugHash |-> h, isEnabled |-> TRUE,  isVisible |-> FALSE]
VisiblePlug(h)  == [plugHash |-> h, isEnabled |-> TRUE,  isVisible |-> TRUE]
PlugOfIndex(i)  == 300 + i
SocketKinds(i)  == {EmptySocket, HiddenPlug(PlugOfIndex(i)), VisiblePlug(PlugOfIndex(i))}

\* Full arrays: any kind at indices 3..5; the sockets outside 3..5 are all
\* empty or all visible plugs.  Also their prefixes (shorter arrays).
FullSocketArrays ==
    LET scanned == ShaderSocketFirst..ShaderSocketLast
        whole == {[n \in 1..SocketCount |->
                      IF (n - 1) \in scanned THEN mid[n - 1]
                      ELSE IF outside THEN VisiblePlug(PlugOfIndex(n - 1))
                      ELSE EmptySocket] :
                    mid \in {f \in [scanned -> UNION {SocketKinds(i) : i \in scanned}] :
                                \A i \in scanned : f[i] \in SocketKinds(i)},
                    outside \in BOOLEAN}
    IN  whole \cup {SubSeq(a, 1, m) : a \in whole, m \in {0, 4, 5}}

\* Two reference arrays for snapshots that vary something else.
RefSocketsA == [n \in 1..4 |-> IF n = 4 THEN VisiblePlug(500) ELSE EmptySocket]
RefSocketsB == [n \in 1..6 |-> IF n = 4 THEN HiddenPlug(500)
                               ELSE IF n = 5 THEN VisiblePlug(999)
                               ELSE EmptySocket]

InstanceIds == 1..MaxItems
PartialFns(D, R) == UNION {[S -> R] : S \in SUBSET D}

\* peerView.equipment entries: an item hash, and dyes that may be missing.
DyeAB == <<[dyeHash |-> 71, channelHash |-> 1], [dyeHash |-> 72, channelHash |-> 2]>>
DyeC  == <<[dyeHash |-> 73, channelHash |-> 1]>>
PeerEntries ==
    {[itemHash |-> h] : h \in ItemHashes}
    \cup {[itemHash |-> h, dyes |-> d] : h \in ItemHashes, d \in {DyeAB, DyeC}}
PeerLists == SeqsUpTo(PeerEntries, MaxPeer)

Character == [classType |-> 1, genderType |-> 0, raceType |-> 2,
              light |-> 1810, emblemPath |-> "/emblem.jpg"]

Snapshot(chars, equip, sockets, render) ==
    [characters          |-> [c \in chars |-> Character],
     characterEquipment  |-> equip,
     itemSockets         |-> sockets,
     characterRenderData |-> render]

\* Snapshots that vary the character list and the equipped items.
EquipmentSnapshots ==
    {Snapshot(chars, equip, sockets, render) :
        chars   \in {{}, {"c1"}},
        equip   \in PartialFns({"c1"}, ItemLists),
        sockets \in {<<>>,
                     [i \in InstanceIds |-> IF i = 1 THEN RefSocketsA ELSE RefSocketsB],
                     [i \in InstanceIds |-> IF i = 1 THEN RefSocketsB ELSE RefSocketsA]},
        render  \in PartialFns({"c1"}, {<<[itemHash |-> 101, dyes |-> DyeAB]>>})}

\* Snapshots that vary the socket state of the one equipped item.
SocketSnapshots ==
    {Snapshot({"c1"}, [c \in {"c1"} |-> items], sockets, <<>>) :
        items   \in {l \in ItemLists : Len(l) = 1},
        sockets \in PartialFns({1}, FullSocketArrays)}

\* Snapshots that vary the peer view against helmets and leg armor.
PeerSnapshots ==
    {Snapshot({"c1"}, [c \in {"c1"} |-> items], <<>>, render) :
        items  \in {l \in ItemLists :
                       \A j \in DOMAIN l : BucketIndex(l[j].bucketHash) \in {1, 4}},
        render \in PartialFns({"c1"}, PeerLists)}

ParseInputs ==
    (EquipmentSnapshots \X CharIds)
    \cup (SocketSnapshots \X {"c1"})
    \cup (PeerSnapshots \X {"c1"})

NoResult == [kind |-> "none"]

\* The load variables, unused while only the parser runs.
LoadsIdle ==
    /\ loads = <<>>
    /\ scene = <<>>
    /\ status = <<>>
    /\ modelLoaded = FALSE
    /\ loadingEl = "shown"
    /\ tgxReady = FALSE
    /\ store = <<>>
    /\ cache = <<>>
    /\ inflight = {}
    /\ walks = <<>>
    /\ calls = <<>>
    /\ resolved = {}
    /\ warned = <<>>

InitParse ==
    /\ \E in \in ParseInputs : profileData = in[1] /\ characterId = in[2]
    /\ result = NoResult
    /\ LoadsIdle
    /\ UnitsIdle

\* const equipment = parseEquipmentForLoader(profileData, charId);
Parse ==
    /\ result = NoResult
    /\ result' = parseEquipmentForLoader(profileData, characterId)
    /\ UNCHANGED <<profileData, characterId>>
    /\ UNCHANGED loadVars
    /\ UNCHANGED unitVars

NextParse == Parse

SpecParse == InitParse /\ [][NextParse]_vars

(***************************************************************************)
(*                 Claims about parseEquipmentForLoader                    *)
(***************************************************************************)

Returned    == result.kind = "return"
FirstIn(S)  == CHOOSE i \in S : \A j \in S : i <= j
ArmorSlotOrder == <<"HELMET", "GAUNTLETS", "CHEST", "LEGS", "CLASS_ITEM">>
SlotRank(name) == CHOOSE r \in DOMAIN ArmorSlotOrder : ArmorSlotOrder[r] = name
EquippedItems  == ItemsOf(profileData, characterId)

\* C1: the armor entries returned (armorDetails, itemHashes) come in the
\* order Helmet, Gauntlets, Chest, Legs, ClassItem, each slot at most once,
\* whatever the order of the equipped-item list; each entry is an equipped
\* item of its slot.
C1_FixedSlotOrder ==
    Returned =>
        /\ Len(result.itemHashes) = Len(result.armorDetails)
        /\ \A i, j \in DOMAIN result.armorDetails :
              i < j => SlotRank(result.armorDetails[i].bucket)
                         < SlotRank(result.armorDetails[j].bucket)
        /\ \A i \in DOMAIN result.armorDetails :
              /\ result.itemHashes[i] = result.armorDetails[i].itemHash
              /\ \E n \in DOMAIN EquippedItems :
                    /\ EquippedItems[n].itemHash = result.itemHashes[i]
                    /\ BucketIndex(EquippedItems[n].bucketHash)
                         = SlotRank(result.armorDetails[i].bucket)

\* Two entries returned, the first of them from the item listed second.
C1_Witness ==
    /\ Returned
    /\ Len(result.armorDetails) = 2
    /\ result.armorDetails[1].instanceId = 2
    /\ result.armorDetails[1].bucket = "GAUNTLETS"
    /\ result.armorDetails[2].bucket = "CLASS_ITEM"

\* The shader expected for an instance: the plug of the lowest socket index
\* among 3, 4, 5 that is visible and holds a non-zero plug; 0 otherwise.
ExpectedShader(instanceId) ==
    IF instanceId \notin DOMAIN profileData.itemSockets THEN 0
    ELSE LET s    == profileData.itemSockets[instanceId]
             cand == {i \in {3, 4, 5} : /\ (i + 1) \in DOMAIN s
                                        /\ s[i + 1].isVisible
                                        /\ s[i + 1].plugHash # 0}
         IN  IF cand = {} THEN 0 ELSE s[FirstIn(cand) + 1].plugHash

\* C2: the shaderHash of every returned armor item is the plugHash of the
\* lowest-indexed socket among 3, 4, 5 that is visible with a non-zero
\* plugHash, and 0 when there is none or the item has no socket state; the
\* sockets outside 3..5 play no part.
C2_ShaderFromSockets3to5 ==
    Returned =>
        /\ Len(result.shaderHashes) = Len(result.armorDetails)
        /\ \A n \in DOMAIN result.armorDetails :
              result.shaderHashes[n] = ExpectedShader(result.armorDetails[n].instanceId)

\* Socket 3 holds a plug that is not visible, socket 4 is empty, socket 5 a
\* visible plug, and the sockets outside 3..5 hold visible plugs too.
C2_Witness ==
    /\ Returned
    /\ Len(result.armorDetails) = 1
    /\ 1 \in DOMAIN profileData.itemSockets
    /\ LET s == profileData.itemSockets[1]
       IN  /\ Len(s) = SocketCount
           /\ s[1].isVisible /\ s[1].plugHash # 0
           /\ s[4].plugHash # 0 /\ ~s[4].isVisible
           /\ s[5].plugHash = 0
           /\ result.shaderHashes[1] = s[6].plugHash
           /\ result.shaderHashes[1] # 0

\* C3: for a character id absent from the snapshot's character list the
\* call fails with a MissingCharacterError.
C3_MissingCharacterError ==
    (result.kind # "none" /\ characterId \notin DOMAIN profileData.characters)
        => (result.kind = "throw" /\ result.error = "MissingCharacterError")

ArmorSlotsEquipped ==
    {r \in DOMAIN ArmorSlotOrder :
        \E n \in DOMAIN EquippedItems : BucketIndex(EquippedItems[n].bucketHash) = r}

\* C4: for a character that exists the call returns, whatever is equipped:
\* one entry per armor slot that has an equipped item and none for the
\* others (no placeholder), so nothing equipped gives empty sequences.
C4_MissingEquipmentOmitted ==
    (result.kind # "none" /\ characterId \in DOMAIN profileData.characters) =>
        /\ Returned
        /\ Len(result.armorDetails) = Cardinality(ArmorSlotsEquipped)
        /\ Len(result.itemHashes) = Cardinality(ArmorSlotsEquipped)
        /\ Len(result.shaderHashes) = Cardinality(ArmorSlotsEquipped)
        /\ Len(result.itemDyes) = Cardinality(ArmorSlotsEquipped)
        /\ {SlotRank(result.armorDetails[i].bucket) : i \in DOMAIN result.armorDetails}
              = ArmorSlotsEquipped
        /\ \A i \in DOMAIN result.itemHashes :
              \E n \in DOMAIN EquippedItems :
                  EquippedItems[n].itemHash = result.itemHashes[i]

\* The character exists and has no equipment entry: an empty result.
C4_Witness ==
    /\ Returned
    /\ characterId \in DOMAIN profileData.characters
    /\ characterId \notin DOMAIN profileData.characterEquipment
    /\ result.itemHashes = <<>>
    /\ result.armorDetails = <<>>

\* Some armor slots equipped, others not: only the equipped ones returned.
C4_WitnessPartial ==
    /\ Returned
    /\ Len(EquippedItems) = 2
    /\ Len(result.armorDetails) = 1
    /\ result.armorDetails[1].bucket = "LEGS"

\* The dyes expected for an item hash: those of the first peer-view entry
\* with that hash; none for no such entry or an entry without dyes.
ExpectedDyes(itemHash) ==
    LET pve  == PeerViewEquipmentOf(profileData, characterId)
        hits == {n \in DOMAIN pve : pve[n].itemHash = itemHash}
    IN  IF hits = {} THEN <<>>
        ELSE IF "dyes" \in DOMAIN pve[FirstIn(hits)] THEN pve[FirstIn(hits)].dyes
        ELSE <<>>

\* C5: itemDyes[i] is the dyes sequence, unchanged, of the (first) peer-view
\* equipment entry whose itemHash is that of entry i, and the empty
\* sequence when no peer-view entry has that itemHash.
C5_DyesFromPeerView ==
    Returned =>
        /\ Len(result.itemDyes) = Len(result.itemHashes)
        /\ \A i \in DOMAIN result.itemHashes :
              result.itemDyes[i] = ExpectedDyes(result.itemHashes[i])

\* Two peer-view entries share an item hash: the item with that hash gets
\* the two dyes of the first, and the other item, with no entry, gets none.
C5_Witness ==
    /\ Returned
    /\ Len(result.itemHashes) = 2
    /\ LET pve == PeerViewEquipmentOf(profileData, characterId)
       IN  /\ Len(pve) = 2
           /\ pve[1].itemHash # result.itemHashes[1]
           /\ pve[2].itemHash = pve[1].itemHash
           /\ result.itemHashes[2] = pve[2].itemHash
           /\ "dyes" \in DOMAIN pve[1]
           /\ Len(pve[1].dyes) = 2
           /\ result.itemDyes[2] = pve[1].dyes
           /\ result.itemDyes[1] = <<>>

\* C27: in every result the sequences itemHashes, shaderHashes, itemDyes
\* and armorDetails have one length, and index i of each of them comes from
\* one equipped item, the one of armorDetails[i]: its item hash, the shader
\* of its sockets, and the peer-view dyes of its item hash.
C27_ParallelSequencesAligned ==
    Returned =>
        /\ Len(result.itemHashes) = Len(result.armorDetails)
        /\ Len(result.shaderHashes) = Len(result.armorDetails)
        /\ Len(result.itemDyes) = Len(result.armorDetails)
        /\ \A i \in DOMAIN result.armorDetails :
              \E n \in DOMAIN EquippedItems :
                  /\ EquippedItems[n].itemInstanceId = result.armorDetails[i].instanceId
                  /\ result.armorDetails[i].itemHash = EquippedItems[n].itemHash
                  /\ result.itemHashes[i] = EquippedItems[n].itemHash
                  /\ result.shaderHashes[i]
                        = ExpectedShader(EquippedItems[n].itemInstanceId)
                  /\ result.itemDyes[i] = ExpectedDyes(EquippedItems[n].itemHash)

\* Two items returned: the first has no peer-view dyes and the second has
\* some, and each sequence holds two entries.
C27_Witness ==
    /\ Returned
    /\ Len(result.armorDetails) = 2
    /\ result.itemHashes[1] # result.itemHashes[2]
    /\ result.itemDyes[1] = <<>>
    /\ result.itemDyes[2] # <<>>

\* Two items returned whose shaders differ, the first entry from the item
\* listed second.
C27_WitnessShaders ==
    /\ Returned
    /\ Len(result.armorDetails) = 2
    /\ result.armorDetails[1].instanceId = 2
    /\ result.shaderHashes[1] # result.shaderHashes[2]

(***************************************************************************)
(*      three.tgxloader.js : TGXManifest.getAsset (the ManifestLookup)     *)
(*                                                                         *)
(* The file is not among the sources; getAsset is modelled from the        *)
(* design: an ordered chain of backing stores, first hit wins, a store     *)
(* that errors counts as a miss, found and not-found results are cached    *)
(* by hash, calls for a hash whose walk is in flight join that walk, and   *)
(* no store reachable at all is a ManifestUnavailableError handed to the   *)
(* error callback.  A found asset and a not-found result (null) go to the  *)
(* load callback.                                                          *)
(***************************************************************************)

StoreChain == <<"gearAssets", "content", "remote">>
Stores     == {StoreChain[k] : k \in DOMAIN StoreChain}

\* The plug hashes of the load snapshots; 0 is "no shader".
ShaderHashes == {500, 999}
Hashes       == {0} \cup ShaderHashes

\* The walks in flight that a call for h finds nothing to join in.
JoinableWalksNone(infl, h) == {}

\* The walks in flight that a call for h joins (request coalescing).
JoinableWalks(infl, h) == {w \in infl : w.hash = h}

\* Variant: only successful results are cached.
CacheableFoundOnly(kind) == kind = "found"

\* Found and not-found results are cached; an outage is not.
Cacheable(kind) == kind \in {"found", "notfound"}

\* The result of one walk of the chain when the stores in reach answer.
ChainWalk(h, reach) ==
    IF reach = {} THEN "unavailable"
    ELSE IF \E k \in DOMAIN StoreChain :
                StoreChain[k] \in reach /\ StoreChain[k] \in store[h].holders
         THEN "found"
    ELSE "notfound"

\* manifest.getAsset(h, onLoad, undefined, onError) called for load l, on the
\* world w: the new world, and the outcome when the cache answers at once.
GetAsset(w, h, l) ==
    LET counted == [w EXCEPT !.calls[h] = @ + 1]
        joined  == JoinableWalks(w.inflight, h)
    IN  IF w.cache[h] # "none"
        THEN [w |-> counted, answer |-> <<w.cache[h]>>, walk |-> w.walks[h]]
        ELSE IF joined # {}
        THEN LET j == CHOOSE j \in joined : TRUE
             IN  [w |-> [counted EXCEPT !.inflight =
                            (@ \ {j}) \cup {[j EXCEPT !.waiters = @ \cup {l}]}],
                  answer |-> <<>>, walk |-> j.id]
        ELSE [w |-> [counted EXCEPT
                        !.walks[h] = @ + 1,
                        !.inflight = @ \cup {[hash |-> h, id |-> w.walks[h] + 1,
                                              waiters |-> {l}]}],
              answer |-> <<>>, walk |-> w.walks[h] + 1]

(***************************************************************************)
(*                       index.js : loadShaderDyes                         *)
(***************************************************************************)

Resolved(v) == [state |-> "resolved", value |-> v]
Pending     == [state |-> "pending",  value |-> Null]

NonEmptyList(ga, field) == field \in DOMAIN ga /\ Len(ga[field]) > 0

\* Variant: default_dyes is looked at before custom_dyes.
DyesOfGearAssetDefaultFirst(ga) ==
    IF NonEmptyList(ga, "default_dyes") THEN ga.default_dyes
    ELSE IF NonEmptyList(ga, "custom_dyes") THEN ga.custom_dyes
    ELSE Null

\* custom_dyes when it has entries, else default_dyes when it has, else null.
DyesOfGearAsset(ga) ==
    IF NonEmptyList(ga, "custom_dyes") THEN ga.custom_dyes
    ELSE IF NonEmptyList(ga, "default_dyes") THEN ga.default_dyes
    ELSE Null

\* What the promise of loadShaderDyes resolves with for a manifest outcome:
\* the load callback with data (found) or null (not found), or the error
\* callback (unavailable).  Every path is resolve(...); none rejects.
ShaderPromise(kind, h) ==
    IF kind = "found"
    THEN IF "gearAsset" \notin DOMAIN store[h].data THEN Resolved(Null)
         ELSE Resolved(DyesOfGearAsset(store[h].data.gearAsset))
    ELSE IF kind = "notfound" THEN Resolved(Null)
    ELSE Resolved(Null)

\* if (!data || !data.gearAsset) console.warn('[Shader] No gear asset data
\* for shader'): the load callback logs it each time it runs without a gear
\* asset, that is for a hash no store holds and for data without gearAsset.
WarnsNoGearAsset(kind, h) ==
    \/ kind = "notfound"
    \/ kind = "found" /\ "gearAsset" \notin DOMAIN store[h].data

\* loadShaderDyes(h) up to its return: the world, the promise returned, and
\* (ghost) how it came about: via which path, with which manifest outcome,
\* served by which walk of h.
LoadShaderDyesCall(w, h, l) ==
    IF h = 0
    THEN [w |-> w, promise |-> Resolved(Null),
          via |-> "nohash", outcome |-> "none", walk |-> 0]
    ELSE IF ~tgxReady
    THEN [w |-> w, promise |-> Resolved(Null),
          via |-> "noloader", outcome |-> "none", walk |-> 0]
    ELSE LET r == GetAsset(w, h, l)
         IN  IF r.answer = <<>>
             THEN [w |-> r.w, promise |-> Pending,
                   via |-> "walk", outcome |-> "none", walk |-> r.walk]
             ELSE [w |-> [r.w EXCEPT !.warned[h] =
                            IF WarnsNoGearAsset(r.answer[1], h) THEN @ + 1 ELSE @],
                   promise |-> ShaderPromise(r.answer[1], h),
                   via |-> "cache", outcome |-> r.answer[1], walk |-> r.walk]

(***************************************************************************)
(*      index.js : init, the callback given to showCharacterSelector       *)
(***************************************************************************)

\* The character loads (selector clicks) of a run, in the order of the clicks.
LoadOrder == <<"L1", "L2">>
Loads     == {LoadOrder[n] : n \in DOMAIN LoadOrder}

\* The status text, by its message; the numbers spliced into a message (an
\* item hash, a percentage, a count) are left out.
Status(msg) == msg

IdleLoad ==
    [pc |-> "idle", charId |-> "", equipment |-> NoResult, i |-> 0,
     shaderDyes |-> Null, promise |-> Pending, group |-> <<>>, loadedCount |-> 0,
     \* ghost
     via |-> "none", outcome |-> "none", walk |-> 0,
     second |-> FALSE, resolvedAtSelect |-> {}, walksAtSelect |-> <<>>,
     recalls |-> 0, failed |-> {}]

World ==
    [loads |-> loads, scene |-> scene, status |-> status,
     modelLoaded |-> modelLoaded, loadingEl |-> loadingEl,
     cache |-> cache, inflight |-> inflight,
     walks |-> walks, calls |-> calls, resolved |-> resolved,
     warned |-> warned]

Commit(w) ==
    /\ loads' = w.loads
    /\ scene' = w.scene
    /\ status' = w.status
    /\ modelLoaded' = w.modelLoaded
    /\ loadingEl' = w.loadingEl
    /\ cache' = w.cache
    /\ inflight' = w.inflight
    /\ walks' = w.walks
    /\ calls' = w.calls
    /\ resolved' = w.resolved
    /\ warned' = w.warned
    /\ UNCHANGED <<tgxReady, store>>
    /\ UNCHANGED parseVars
    /\ UNCHANGED unitVars

\* loadModel(itemHash, {shaderHash, itemDyes, shaderDyes}) up to its return:
\* the status line, then the loader is started.
CallLoadModel(w, l) ==
    [w EXCEPT !.status = Status("Cargando modelo ..."),
                  !.loads[l].pc = "awaitModel"]

\* if (shaderHash && shaderHash !== 0)
NeedsShaderLookup(shaderHash) == shaderHash # 0

\* Variant: shaderDyes declared outside the loop keeps the last piece's dyes.
InitialShaderDyesStale(previous) == previous

\* let shaderDyes = null;
InitialShaderDyes(previous) == Null

\* The loop body of piece w.loads[l].i up to its first await.
BeginPiece(w, l) ==
    LET ld    == w.loads[l]
        h     == ld.equipment.shaderHashes[ld.i]
        fresh == [ld EXCEPT !.shaderDyes = InitialShaderDyes(@),
                            !.promise = Pending,
                            !.via = "none", !.outcome = "none", !.walk = 0]
    IN  IF NeedsShaderLookup(h)
        THEN LET c == LoadShaderDyesCall(w, h, l)
             IN  [c.w EXCEPT !.loads[l] =
                    [fresh EXCEPT !.pc = "awaitShader",
                                  !.promise = c.promise,
                                  !.via = c.via, !.outcome = c.outcome,
                                  !.walk = c.walk,
                                  !.recalls =
                                      IF /\ c.via \in {"cache", "walk"}
                                         /\ h \in ld.resolvedAtSelect
                                      THEN @ + 1 ELSE @]]
        ELSE CallLoadModel([w EXCEPT !.loads[l] = fresh], l)

\* if (loadingEl) loadingEl.style.display = 'none'
HideLoading(el) == IF el = "absent" THEN el ELSE "none"

\* Variant: the group enters the scene beside the models already in it.
AddGroupToSceneKeeping(w, group, framed) ==
    [w EXCEPT !.scene = Append(@, group),
              !.modelLoaded = @ \/ framed,
              !.status = Status(""),
              !.loadingEl = HideLoading(@)]

\* Variant: window.modelLoaded is set after the try block.
AddGroupToSceneLoaded(w, group, framed) ==
    [w EXCEPT !.scene = <<group>>,
              !.modelLoaded = TRUE,
              !.status = Status(""),
              !.loadingEl = HideLoading(@)]

\* addGroupToScene(group): the previous character groups and item meshes
\* leave the scene and the group enters it (in the try block, or in the
\* catch when framing threw before scene.add); modelLoaded is set at the end
\* of the try block; after it the status is cleared and the loading overlay
\* is hidden.
AddGroupToScene(w, group, framed) ==
    [w EXCEPT !.scene = <<group>>,
              !.modelLoaded = @ \/ framed,
              !.status = Status(""),
              !.loadingEl = HideLoading(@)]

\* Variant: the group goes to the scene whatever it holds.
FinishLoadAlways(w, l, framed) ==
    AddGroupToScene([w EXCEPT !.loads[l].pc = "done"],
                    [name |-> "characterGroup", load |-> l,
                     children |-> w.loads[l].group], framed)

\* After the loop: the group goes to the scene when it has a mesh.
FinishLoad(w, l, framed) ==
    LET ld   == w.loads[l]
        done == [w EXCEPT !.loads[l].pc = "done"]
    IN  IF Len(ld.group) > 0
        THEN AddGroupToScene(done, [name |-> "characterGroup", load |-> l,
                                    children |-> ld.group], framed)
        ELSE [done EXCEPT !.status =
                Status("Error: No se pudo cargar ninguna pieza de armadura.")]

\* Variant: the loop ends after the piece in hand, whatever pieces are left.
NextPieceEndsEarly(w, l, framed) == FinishLoad(w, l, framed)

\* i++ and the loop test: the next piece, or the end of the load.
NextPiece(w, l, framed) ==
    LET ld == w.loads[l]
    IN  IF ld.i < Len(ld.equipment.itemHashes)
        THEN BeginPiece([w EXCEPT !.loads[l].i = @ + 1], l)
        ELSE FinishLoad(w, l, framed)

\* The selector button of character c is clicked for load l: the callback
\* runs up to its first await.
Select(l, c) ==
    /\ loads[l].pc = "idle"
    /\ \A n \in DOMAIN LoadOrder :
          LoadOrder[n] = l => \A m \in 1..(n - 1) : loads[LoadOrder[m]].pc # "idle"
    /\ c \in DOMAIN profileData.characters
    /\ LET w0 == [World EXCEPT !.status = Status("Cargando personaje...")]
           eq == parseEquipmentForLoader(profileData, c)
           ld == [IdleLoad EXCEPT
                    !.charId = c, !.equipment = eq,
                    !.second = /\ \E o \in Loads \ {l} : loads[o].pc = "done"
                               /\ \A o \in Loads \ {l} : loads[o].pc \in {"idle", "done"},
                    !.resolvedAtSelect = resolved,
                    !.walksAtSelect = walks]
       IN  IF eq.kind = "throw"
           THEN Commit([w0 EXCEPT !.loads[l] = [ld EXCEPT !.pc = "rejected"]])
           ELSE IF Len(eq.itemHashes) > 0
           THEN Commit(BeginPiece([w0 EXCEPT !.loads[l] = [ld EXCEPT !.i = 1]], l))
           ELSE Commit([w0 EXCEPT
                          !.loads[l] = [ld EXCEPT !.pc = "done"],
                          !.status = Status("No se encontró armadura equipada")])

\* shaderDyes = await loadShaderDyes(shaderHash) resumes; loadModel is called.
ResumeShader(l) ==
    /\ loads[l].pc = "awaitShader"
    /\ loads[l].promise.state = "resolved"
    /\ Commit(CallLoadModel(
          [World EXCEPT !.loads[l].shaderDyes = loads[l].promise.value], l))

\* The loader's progress callback of a model being loaded.
ModelProgress(l) ==
    /\ loads[l].pc = "awaitModel"
    /\ status # Status("Cargando: %")
    /\ Commit([World EXCEPT !.status = Status("Cargando: %")])

\* mesh = await loadModel(...) resumes with a mesh: it joins the group, and
\* the loop goes on (framed: addGroupToScene's framing did not throw).
ModelLoaded(l, framed) ==
    /\ loads[l].pc = "awaitModel"
    /\ LET ld == loads[l]
           w1 == [World EXCEPT
                    !.loads[l].group = Append(@, [name |-> "item",
                                                  itemHash |-> ld.equipment.itemHashes[ld.i]]),
                    !.loads[l].loadedCount = @ + 1,
                    !.status = Status("Cargando equipo: n/t")]
       IN  Commit(NextPiece(w1, l, framed))

\* await loadModel(...) throws (the loader's error callback rejected the
\* promise): the catch logs it and the loop goes on.
ModelFailed(l, framed) ==
    /\ loads[l].pc = "awaitModel"
    /\ Commit(NextPiece([World EXCEPT !.loads[l].failed = @ \cup {loads[l].i}],
                        l, framed))

\* The loader's load callback, an async function, throws while it makes the
\* mesh (the import, the material conversion or the skin copy): its own
\* promise rejects unobserved, and neither resolve nor reject of loadModel's
\* promise is ever called, so the await of the loop never resumes.
AssemblyThrows(l) ==
    /\ loads[l].pc = "awaitModel"
    /\ Commit([World EXCEPT !.loads[l].pc = "awaitModelForever",
                            !.loads[l].failed = @ \cup {loads[l].i}])

\* A walk of the store chain ends, with the stores in reach answering: the
\* result is cached, and the callbacks of every waiting call run.
WalkFinish(k, reach) ==
    /\ k \in inflight
    /\ LET kind == ChainWalk(k.hash, reach)
       IN  Commit([World EXCEPT
              !.inflight = @ \ {k},
              !.cache[k.hash] = IF Cacheable(kind) THEN kind ELSE @,
              !.resolved = IF kind \in {"found", "notfound"}
                           THEN @ \cup {k.hash} ELSE @,
              !.warned[k.hash] = IF WarnsNoGearAsset(kind, k.hash)
                                 THEN @ + Cardinality(k.waiters) ELSE @,
              !.loads = [l \in Loads |->
                           IF l \in k.waiters
                           THEN [@[l] EXCEPT !.promise = ShaderPromise(kind, k.hash),
                                             !.outcome = kind]
                           ELSE @[l]]])

(***************************************************************************)
(*                    The states the loads start from                      *)
(***************************************************************************)

MaxPieces == 2      \* armor pieces equipped in a load snapshot

\* A socket array with the shader plug h in socket 3.
ShaderSockets(h) == [n \in 1..4 |-> IF n = 4 THEN VisiblePlug(h) ELSE EmptySocket]

\* One character whose j-th armor slot holds item 100+j with shader sh[j]
\* (0: the item has no socket state); the items are listed last slot first.
LoadSnapshot(sh) ==
    Snapshot({"c1"},
             [c \in {"c1"} |->
                [j \in DOMAIN sh |->
                    LET k == Len(sh) + 1 - j
                    IN  [bucketHash |-> ARMOR_BUCKETS[k].hash,
                         itemHash |-> 100 + k, itemInstanceId |-> k]]],
             [k \in {k \in DOMAIN sh : sh[k] # 0} |-> ShaderSockets(sh[k])],
             <<>>)

\* The shader hashes of a snapshot's pieces: every run of up to two pieces,
\* and of the longer runs the one with a found shader, then a piece without
\* shader, then a shader no store holds.
LongRuns   == {<<500, 0, 999>>}
ShaderRuns == {sh \in SeqsUpTo(Hashes, MaxPieces) : Len(sh) > 2 => sh \in LongRuns}

LoadSnapshots == {LoadSnapshot(sh) : sh \in ShaderRuns}

\* What the stores hold for hash 500: data with or without a gear asset,
\* whose dye lists are present or not, empty or not.
GearAssets ==
    { [locked_dyes |-> <<"lockedA">>],
      [custom_dyes |-> <<>>, default_dyes |-> <<"defaultA">>,
       locked_dyes |-> <<>>],
      [custom_dyes |-> <<"customA", "customB">>, default_dyes |-> <<"defaultA">>,
       locked_dyes |-> <<"lockedA">>] }
AssetData ==
    {[requestedId |-> 500]}
    \cup {[requestedId |-> 500, gearAsset |-> ga] : ga \in GearAssets}

StoreContents ==
    {[h \in ShaderHashes |->
        IF h = 999 THEN [holders |-> {}, data |-> [requestedId |-> 999]]
        ELSE [holders |-> {"content", "remote"}, data |-> d]] : d \in AssetData}

Init ==
    /\ profileData \in LoadSnapshots
    /\ characterId = ""
    /\ result = NoResult
    /\ loads = [l \in Loads |-> IdleLoad]
    /\ scene = <<>>
    /\ status = Status("Obteniendo datos del perfil...")
    /\ modelLoaded = FALSE
    /\ loadingEl = "shown"
    /\ tgxReady \in BOOLEAN
    /\ store \in StoreContents
    /\ cache = [h \in Hashes |-> "none"]
    /\ inflight = {}
    /\ walks = [h \in Hashes |-> 0]
    /\ calls = [h \in Hashes |-> 0]
    /\ resolved = {}
    /\ warned = [h \in Hashes |-> 0]
    /\ UnitsIdle

Next ==
    \/ \E l \in Loads, c \in CharIds : Select(l, c)
    \/ \E l \in Loads : ResumeShader(l)
    \/ \E l \in Loads : ModelProgress(l)
    \/ \E l \in Loads, framed \in BOOLEAN : ModelLoaded(l, framed)
    \/ \E l \in Loads, framed \in BOOLEAN : ModelFailed(l, framed)
    \/ \E l \in Loads : AssemblyThrows(l)
    \/ \E k \in inflight, reach \in SUBSET Stores : WalkFinish(k, reach)

Spec == Init /\ [][Next]_vars

(***************************************************************************)
(*             Claims about shader lookups in a character load             *)
(***************************************************************************)

Loading(l)       == loads[l].pc \in {"awaitShader", "awaitModel"}
CurrentShader(l) == loads[l].equipment.shaderHashes[loads[l].i]
\* Load l called manifest.getAsset for its current piece.
Looked(l)        == Loading(l) /\ loads[l].via \in {"walk", "cache"}
\* The promise of that lookup is settled; its value.
Settled(l) ==
    Looked(l) /\ (loads[l].pc = "awaitShader" => loads[l].promise.state # "pending")
LookupValue(l) ==
    IF loads[l].pc = "awaitShader" THEN loads[l].promise.value ELSE loads[l].shaderDyes

C8_UnavailableIsNotNotFound ==
    \A l \in Loads :
        (Looked(l) /\ loads[l].outcome = "unavailable") =>
            /\ loads[l].promise.state = "rejected"
            /\ loads[l].promise.value = <<"ManifestUnavailableError">>

\* C9: when the manifest delivers a gear asset with a non-empty custom dye
\* list, the lookup's dyes are that list (so its first entry is the first
\* custom dye), whatever default_dyes and locked_dyes hold; the default list
\* is the result only when the custom list is empty or absent.
C9_CustomDyesFirst ==
    \A l \in Loads :
        (Settled(l) /\ loads[l].outcome = "found"
                    /\ "gearAsset" \in DOMAIN store[CurrentShader(l)].data) =>
            LET ga     == store[CurrentShader(l)].data.gearAsset
                custom == IF "custom_dyes" \in DOMAIN ga THEN ga.custom_dyes ELSE <<>>
                dflt   == IF "default_dyes" \in DOMAIN ga THEN ga.default_dyes ELSE <<>>
            IN  /\ custom # <<>> =>
                      /\ LookupValue(l) = custom
                      /\ LookupValue(l)[1] = custom[1]
                /\ (custom = <<>> /\ dflt # <<>>) => LookupValue(l) = dflt
                /\ (custom = <<>> /\ dflt = <<>>) => LookupValue(l) = Null

\* A found shader with custom and default dyes: the custom dyes are handed
\* to loadModel.
C9_Witness ==
    \E l \in Loads :
        /\ loads[l].pc = "awaitModel"
        /\ loads[l].outcome = "found"
        /\ loads[l].shaderDyes = <<"customA", "customB">>
        /\ store[CurrentShader(l)].data.gearAsset.default_dyes = <<"defaultA">>

\* C10: for a piece whose shaderHash is 0 no manifest.getAsset call is made
\* (none at all for hash 0) and loadModel gets no shader dyes.
C10_NoLookupForShaderZero ==
    /\ calls[0] = 0
    /\ \A l \in Loads :
          (Loading(l) /\ CurrentShader(l) = 0) =>
              /\ ~Looked(l)
              /\ loads[l].pc = "awaitModel" => loads[l].shaderDyes = Null

\* The second piece has no shader; the first one's shader was found, with
\* dyes, and its mesh is in the group.
C10_Witness ==
    \E l \in Loads :
        /\ loads[l].pc = "awaitModel"
        /\ loads[l].i = 2
        /\ loads[l].equipment.shaderHashes = <<500, 0>>
        /\ cache[500] = "found"
        /\ "gearAsset" \in DOMAIN store[500].data
        /\ DyesOfGearAsset(store[500].data.gearAsset) # Null
        /\ Len(loads[l].group) = 1
        /\ loads[l].shaderDyes = Null

\* C11: across a session at most one "unresolved" diagnostic is logged for
\* a shader hash that no store holds, however many pieces or calls ask for
\* it.
C11_OneDiagnosticPerMissingHash ==
    \A h \in ShaderHashes : store[h].holders = {} => warned[h] <= 1

\* C17: a piece that failed is skipped and nothing else: the load has gone
\* on to a later piece or has ended, and at the end the group holds, in
\* order, every piece that did not fail.
C17_FailureSkipsOnlyThatPiece ==
    \A l \in Loads :
        /\ \A j \in loads[l].failed : loads[l].pc = "done" \/ loads[l].i > j
        /\ (loads[l].pc = "done" /\ loads[l].equipment.kind = "return") =>
              Len(loads[l].group) + Cardinality(loads[l].failed)
                  = Len(loads[l].equipment.itemHashes)

NothingLoadedStatus ==
    {Status("No se encontró armadura equipada"),
     Status("Error: No se pudo cargar ninguna pieza de armadura.")}

\* C18: a load that ends with no piece loaded (no armor equipped, or every
\* piece failed) sets a "nothing loaded" status as it ends and leaves the
\* scene as it was; no character group without children is ever in the
\* scene.
C18_NothingLoadedReported ==
    /\ [](\A n \in DOMAIN scene : scene[n].children # <<>>)
    /\ [][\A l \in Loads :
            (loads[l].pc # "done" /\ loads'[l].pc = "done" /\ loads'[l].group = <<>>)
                => (status' \in NothingLoadedStatus /\ scene' = scene)]_vars

\* Both pieces of a load failed; it ended with the error status and an
\* empty scene.
C18_Witness ==
    \E l \in Loads :
        /\ loads[l].pc = "done"
        /\ Len(loads[l].equipment.itemHashes) = 2
        /\ loads[l].failed = {1, 2}
        /\ loads[l].group = <<>>
        /\ status = Status("Error: No se pudo cargar ninguna pieza de armadura.")
        /\ scene = <<>>

\* The pieces of load l that are in its group, and those that are in it or
\* have failed, by their index in the equipment.
Added(l) ==
    {j \in DOMAIN loads[l].equipment.itemHashes :
        \E k \in DOMAIN loads[l].group :
            loads[l].group[k].itemHash = loads[l].equipment.itemHashes[j]}
Finished(l) == Added(l) \cup loads[l].failed
InScene(l)  == \E n \in DOMAIN scene : scene[n].load = l

\* C21: within a load the pieces are taken one at a time and in order:
\* while the shader lookup or the model load of piece i is awaited, the
\* pieces added to the group or failed are exactly those before i, the group
\* holds them in the equipment's order, and the load's group is in the scene
\* only when the load has ended with every piece added or failed.
C21_PiecesOneAtATimeInOrder ==
    \A l \in Loads :
        loads[l].equipment.kind = "return" =>
            /\ Loading(l) => Finished(l) = 1 .. (loads[l].i - 1)
            /\ \A k \in DOMAIN loads[l].group :
                  /\ k > 1 => loads[l].group[k - 1].itemHash < loads[l].group[k].itemHash
                  /\ \E j \in Added(l) :
                        loads[l].group[k].itemHash = loads[l].equipment.itemHashes[j]
            /\ InScene(l) =>
                  /\ loads[l].pc = "done"
                  /\ Finished(l) = DOMAIN loads[l].equipment.itemHashes
                  /\ \A n \in DOMAIN scene :
                        scene[n].load = l => scene[n].children = loads[l].group

\* The second piece of a load is being loaded after the first was added to
\* the group, and the group is not in the scene yet.
C21_Witness ==
    \E l \in Loads :
        /\ loads[l].pc = "awaitModel"
        /\ loads[l].i = 2
        /\ Added(l) = {1}
        /\ ~InScene(l)

\* Load l takes a step of its callback (it starts, moves on or ends).
Steps(l) ==
    \/ loads'[l].pc # loads[l].pc
    \/ loads'[l].i # loads[l].i
    \/ loads'[l].group # loads[l].group

\* Load l ends in this step and hands its group to the scene.
HandsOver(l) ==
    loads[l].pc # "done" /\ loads'[l].pc = "done" /\ loads'[l].group # <<>>

\* C22: a load that starts or goes on while another is in flight leaves the
\* other where it is (nothing cancels it); a load that hands its group to
\* the scene leaves that group as the only model in the scene, so after both
\* loads the scene holds one character group, that of the load handed over
\* last, and nothing else changes the scene.
C22_LastWriterWins ==
    /\ [](Len(scene) <= 1)
    /\ [][\A l \in Loads :
            /\ Steps(l) =>
                  \A o \in Loads \ {l} :
                      /\ loads'[o].pc = loads[o].pc
                      /\ loads'[o].i = loads[o].i
                      /\ loads'[o].group = loads[o].group
                      /\ loads'[o].equipment = loads[o].equipment
            /\ HandsOver(l) =>
                  scene' = <<[name |-> "characterGroup", load |-> l,
                              children |-> loads'[l].group]>>
            /\ (scene' # scene) => \E o \in Loads : HandsOver(o)]_vars

\* Both loads have ended with pieces loaded; the second was started while
\* the first was in flight, the first was handed to the scene last, and its
\* group alone is in the scene.
C22_Witness ==
    /\ \A l \in Loads : loads[l].pc = "done" /\ loads[l].group # <<>>
    /\ Len(scene) = 1
    /\ scene[1].load = LoadOrder[1]
    /\ scene[1].children = loads[LoadOrder[1]].group
    /\ ~loads[LoadOrder[2]].second

(***************************************************************************)
(*        index.js : loadModel, the mesh made in the loader callback       *)
(*                                                                         *)
(* A bone descriptor is a record whose parent field is present or not; JS  *)
(* index i of geometry.bones is TLA+ index i+1, and the bone nodes are     *)
(* named by their JS index.  THREE.Object3D.add(child) sets child.parent,  *)
(* after removing child from the parent it had, and refuses (with a        *)
(* console.error) to add an object to itself.                               *)
(***************************************************************************)

NoBone == -1        \* a bone node whose parent is null
NoMesh == [kind |-> "none"]

HasParent(b) == "parent" \in DOMAIN b
BoneIdx(bs)  == 0 .. (Len(bs) - 1)

\* Variant: every bone but the first is hung on the bone before it.
AttachedParentChain(bs, i) == IF i > 0 THEN i - 1 ELSE NoBone

\* if (boneData.parent >= 0 && boneData.parent < threeBones.length)
\*     threeBones[boneData.parent].add(threeBones[i]);
\* the parent node of bone i after the loop, each bone being added once.
AttachedParent(bs, i) ==
    LET b == bs[i + 1]
    IN  IF HasParent(b) /\ b.parent >= 0 /\ b.parent < Len(bs) /\ b.parent # i
        THEN b.parent
        ELSE NoBone

\* if (boneData.parent < 0 || boneData.parent === undefined)
Parentless(b) == ~HasParent(b) \/ b.parent < 0

\* let rootBone = threeBones[0]; geometry.bones.forEach(... rootBone =
\* threeBones[i] ...): the loop from bone i on, root being the choice so far.
RECURSIVE RootScan(_, _, _)
RootScan(bs, i, root) ==
    IF i >= Len(bs) THEN root
    ELSE RootScan(bs, i + 1, IF Parentless(bs[i + 1]) THEN i ELSE root)

RootBone(bs) == RootScan(bs, 0, 0)

\* The loader callback from "let mesh" to resolve(mesh): a SkinnedMesh over
\* one node per descriptor, with the root bone moved under the mesh, or a
\* plain Mesh when the geometry has no bones.
CreateMesh(bs) ==
    IF Len(bs) > 0
    THEN LET root == RootBone(bs)
         IN  [kind |-> "resolve", type |-> "SkinnedMesh",
              skeleton |-> Len(bs),
              parentOf |-> [i \in BoneIdx(bs) |->
                              IF i = root THEN NoBone ELSE AttachedParent(bs, i)],
              children |-> <<root>>]
    ELSE [kind |-> "resolve", type |-> "Mesh", skeleton |-> 0,
          parentOf |-> <<>>, children |-> <<>>]

MaxBones == 4       \* bone descriptors of a geometry

BoneData  == {[parent |-> p] : p \in -1 .. MaxBones} \cup {[name |-> "bone"]}
BoneLists == SeqsUpTo(BoneData, MaxBones)

ParseIdle == profileData = <<>> /\ characterId = "" /\ result = NoResult

InitBones ==
    /\ bones \in BoneLists
    /\ mesh = NoMesh
    /\ ParseIdle
    /\ LoadsIdle
    /\ FrameIdle
    /\ AuthIdle
    /\ ExtraIdle

\* loader.load calls back with the geometry; the mesh is made and resolved.
Assemble ==
    /\ mesh = NoMesh
    /\ mesh' = CreateMesh(bones)
    /\ UNCHANGED bones
    /\ UNCHANGED <<parseVars, loadVars, frameVars, authVars, extraVars>>

NextBones == Assemble

SpecBones == InitBones /\ [][NextBones]_vars

(***************************************************************************)
(*                     Claims about the bone hierarchy                     *)
(***************************************************************************)

Assembled       == mesh # NoMesh
ParentlessIn(bs) == {i \in BoneIdx(bs) : Parentless(bs[i + 1])}

\* C12: with more than one parentless bone, the root attached to the mesh
\* is the first of them in sequence order.
C12_RootIsFirstParentless ==
    (Assembled /\ Cardinality(ParentlessIn(bones)) > 1) =>
        mesh.children = <<FirstIn(ParentlessIn(bones))>>

\* A bone that names a parent at or after its own position, or outside the
\* sequence.
Malformed(bs) ==
    \E i \in BoneIdx(bs) :
        HasParent(bs[i + 1]) /\ (bs[i + 1].parent >= i \/ bs[i + 1].parent < -1)

\* C13: assembling a sequence with a bone whose parent index is not below
\* its own index fails with a MalformedSkeletonError.
C13_MalformedSkeletonError ==
    (Assembled /\ Malformed(bones)) =>
        mesh.kind = "reject" /\ mesh.error = "MalformedSkeletonError"

\* Every descriptor names its parent, -1 or an earlier bone.
WellFormed(bs) ==
    /\ Len(bs) > 0
    /\ \A i \in BoneIdx(bs) :
          HasParent(bs[i + 1]) /\ bs[i + 1].parent >= -1 /\ bs[i + 1].parent < i

\* C14: for a well-formed sequence the hierarchy has one node per
\* descriptor, node i is a child of node p exactly when descriptor i has
\* parent p >= 0, and a sequence with one parentless bone has it, bone 0,
\* as the root under the mesh.
C14_HierarchyFollowsParents ==
    (Assembled /\ WellFormed(bones)) =>
        /\ mesh.kind = "resolve" /\ mesh.type = "SkinnedMesh"
        /\ mesh.skeleton = Len(bones)
        /\ DOMAIN mesh.parentOf = BoneIdx(bones)
        /\ \A i, q \in BoneIdx(bones) :
              mesh.parentOf[i] = q <=> bones[i + 1].parent = q
        /\ \A i \in BoneIdx(bones) :
              mesh.parentOf[i] = NoBone <=> bones[i + 1].parent = -1
        /\ Cardinality(ParentlessIn(bones)) = 1 => mesh.children = <<0>>

\* The sequence [{parent:-1},{parent:0},{parent:0},{parent:1}] assembled:
\* bone 0 is the root, 1 and 2 hang on 0, and 3 on 1.
C14_Witness ==
    /\ bones = <<[parent |-> -1], [parent |-> 0], [parent |-> 0], [parent |-> 1]>>
    /\ Assembled
    /\ mesh.children = <<0>>
    /\ mesh.parentOf[1] = 0 /\ mesh.parentOf[2] = 0 /\ mesh.parentOf[3] = 1

(***************************************************************************)
(*            index.js : addGroupToScene, framing of the group             *)
(*                                                                         *)
(* A JS number is a fraction [n, d] in lowest terms with d >= 0: d = 0 is  *)
(* Infinity (n = 1), -Infinity (n = -1) or NaN (n = 0).  The sign of zero  *)
(* is not kept.                                                            *)
(***************************************************************************)

RECURSIVE Gcd(_, _)
Gcd(a, b) == IF b = 0 THEN a ELSE Gcd(b, a % b)
Abs(x)    == IF x < 0 THEN -x ELSE x
Sign(x)   == IF x < 0 THEN -1 ELSE IF x > 0 THEN 1 ELSE 0

\* The number n/d.
R(n, d) ==
    IF d = 0 THEN [n |-> Sign(n), d |-> 0]
    ELSE LET g == Gcd(Abs(n), Abs(d))
         IN  [n |-> (Sign(d) * n) \div g, d |-> Abs(d) \div g]

NaN      == R(0, 0)
Infinity == R(1, 0)
IsNaN(a)    == a.n = 0 /\ a.d = 0
isFinite(a) == a.d # 0

Neg(a) == [n |-> -a.n, d |-> a.d]
Add(a, b) ==
    IF a.d = 0 /\ b.d = 0 THEN (IF a.n = b.n THEN a ELSE NaN)
    ELSE R(a.n * b.d + b.n * a.d, a.d * b.d)
Sub(a, b) == Add(a, Neg(b))
Mul(a, b) == R(a.n * b.n, a.d * b.d)
Inv(a)    == R(a.d, a.n)
Div(a, b) == Mul(a, Inv(b))

\* a < b and a <= b as JS compares: false when either is NaN.
Lt(a, b) ==
    /\ ~IsNaN(a) /\ ~IsNaN(b)
    /\ IF a.d = 0 /\ b.d = 0 THEN a.n < b.n ELSE a.n * b.d < b.n * a.d
Le(a, b) == ~IsNaN(a) /\ ~IsNaN(b) /\ ~Lt(b, a)

\* Math.max of two and of three numbers: NaN when any is.
Max2(a, b) == IF IsNaN(a) \/ IsNaN(b) THEN NaN ELSE IF Lt(a, b) THEN b ELSE a
MathMax(a, b, c) == Max2(Max2(a, b), c)

Axes == 1 .. 3
Vec(x, y, z) == <<x, y, z>>

\* THREE.Box3: isEmpty, getSize and getCenter (zero vectors for an empty box).
BoxIsEmpty(b) == \E a \in Axes : Lt(b.max[a], b.min[a])
BoxSize(b) ==
    IF BoxIsEmpty(b) THEN Vec(R(0, 1), R(0, 1), R(0, 1))
    ELSE [a \in Axes |-> Sub(b.max[a], b.min[a])]
BoxCenter(b) ==
    IF BoxIsEmpty(b) THEN Vec(R(0, 1), R(0, 1), R(0, 1))
    ELSE [a \in Axes |-> Mul(Add(b.min[a], b.max[a]), R(1, 2))]

\* let maxDim = Math.max(size.x, size.y, size.z);
MaxDimOf(b) == LET size == BoxSize(b) IN MathMax(size[1], size[2], size[3])

\* Variant: the fallback test without the isFinite part.
NeedsFallbackNonPositive(maxDim) == Le(maxDim, R(0, 1))

\* if (!isFinite(maxDim) || maxDim <= 0)
NeedsFallback(maxDim) == ~isFinite(maxDim) \/ Le(maxDim, R(0, 1))

\* Variant: the threshold itself counts as tiny.
ScaleFactorUpTo(maxDim) ==
    IF Le(maxDim, R(1, 2)) /\ Lt(R(0, 1), maxDim) THEN Inv(maxDim) ELSE R(1, 1)

\* let scaleFactor = 1; if (maxDim < 0.5 && maxDim > 0) scaleFactor = 1 / maxDim;
ScaleFactor(maxDim) ==
    IF Lt(maxDim, R(1, 2)) /\ Lt(R(0, 1), maxDim) THEN Inv(maxDim) ELSE R(1, 1)

\* 2 * Math.tan(fov / 2) for the camera's fov of 45 degrees, 0.8284..., as
\* the fraction 29/35.
TwoTanHalfFov == R(29, 35)

\* The try block of addGroupToScene from the bounding box to the camera.
Placement(b) ==
    LET raw      == MaxDimOf(b)
        fallback == NeedsFallback(raw)
        maxDim   == IF fallback THEN R(2, 1) ELSE raw
        center   == IF fallback THEN Vec(R(0, 1), R(1, 1), R(0, 1)) ELSE BoxCenter(b)
        sf       == ScaleFactor(maxDim)
        scaled   == [a \in Axes |-> Mul(center[a], sf)]
        distance == Mul(Div(Mul(maxDim, sf), TwoTanHalfFov), R(3, 2))
    IN  [kind |-> "placed", maxDim |-> maxDim, center |-> center,
         scaleFactor |-> sf,
         scale |-> Vec(sf, sf, sf),
         position |-> [a \in Axes |-> Neg(scaled[a])],
         cameraDistance |-> distance,
         camera |-> Vec(R(0, 1), R(0, 1), Max2(distance, R(2, 1)))]

MaxEighth == 4      \* the largest finite box coordinate, in eighths

Coordinates == {R(k, 8) : k \in -1 .. MaxEighth} \cup {NaN, Infinity, Neg(Infinity)}
\* The x range is any pair of coordinates; the y and z ranges start at 0, at
\* NaN or at Infinity (the minimum of an empty box).
WideRanges == Coordinates \X Coordinates
LowRanges  == {R(0, 1), NaN, Infinity} \X Coordinates
Boxes ==
    {[min |-> Vec(x[1], y[1], z[1]), max |-> Vec(x[2], y[2], z[2])] :
        x \in WideRanges, y \in LowRanges, z \in LowRanges}

NotPlaced == [kind |-> "none"]

InitFrame ==
    /\ box \in Boxes
    /\ placed = NotPlaced
    /\ ParseIdle
    /\ LoadsIdle
    /\ BonesIdle
    /\ AuthIdle
    /\ ExtraIdle

\* addGroupToScene's framing runs on the box of the group.
Frame ==
    /\ placed = NotPlaced
    /\ placed' = Placement(box)
    /\ UNCHANGED box
    /\ UNCHANGED <<parseVars, loadVars, boneVars, authVars, extraVars>>

NextFrame == Frame

SpecFrame == InitFrame /\ [][NextFrame]_vars

(***************************************************************************)
(*                        Claims about the framing                         *)
(***************************************************************************)

Placed      == placed # NotPlaced
Zero        == R(0, 1)
One         == R(1, 1)
AllFinite(v) == \A a \in Axes : isFinite(v[a])

\* C15: when the maximum extent of the bounding box is non-finite or <= 0,
\* the placement uses extent 2 and center (0,1,0), the scale factor is 1,
\* and the scale, the position and the camera distance are all finite.
C15_DegenerateBoxDefaults ==
    (Placed /\ (~isFinite(MaxDimOf(box)) \/ Le(MaxDimOf(box), Zero))) =>
        /\ placed.maxDim = R(2, 1)
        /\ placed.center = Vec(Zero, One, Zero)
        /\ placed.scaleFactor = One
        /\ placed.scale = Vec(One, One, One)
        /\ placed.position = Vec(Zero, R(-1, 1), Zero)
        /\ AllFinite(placed.scale) /\ AllFinite(placed.position)
        /\ isFinite(placed.cameraDistance) /\ AllFinite(placed.camera)

\* A box whose x extent is NaN and whose other extents are positive has
\* been framed.
C15_Witness ==
    /\ Placed
    /\ ~BoxIsEmpty(box)
    /\ IsNaN(BoxSize(box)[1])
    /\ Lt(Zero, BoxSize(box)[2])
    /\ IsNaN(MaxDimOf(box))
    /\ placed.scaleFactor = One

\* An empty box (extent 0) has been framed.
C15_WitnessEmpty ==
    /\ Placed
    /\ BoxIsEmpty(box)
    /\ MaxDimOf(box) = Zero
    /\ placed.center = Vec(Zero, One, Zero)

\* C16: the scale factor is 1/maxExtent exactly when the maximum extent is
\* positive and below 0.5, and exactly 1 for every other extent; the group
\* is positioned at the negated center times the scale factor.
C16_ScaleBelowThreshold ==
    Placed =>
        LET m == MaxDimOf(box)
        IN  /\ (Lt(Zero, m) /\ Lt(m, R(1, 2))) =>
                  /\ placed.scaleFactor = Inv(m)
                  /\ placed.center = BoxCenter(box)
            /\ ~(Lt(Zero, m) /\ Lt(m, R(1, 2))) => placed.scaleFactor = One
            /\ placed.scale = Vec(placed.scaleFactor, placed.scaleFactor,
                                  placed.scaleFactor)
            /\ \A a \in Axes :
                  placed.position[a] = Neg(Mul(placed.center[a], placed.scaleFactor))

\* A box of maximum extent 3/8 around a center off the origin has been
\* framed with scale 8/3.
C16_Witness ==
    /\ Placed
    /\ MaxDimOf(box) = R(3, 8)
    /\ placed.scaleFactor = R(8, 3)
    /\ placed.position[1] # Zero
    /\ placed.position[1] = Neg(Mul(BoxCenter(box)[1], R(8, 3)))

\* A box whose maximum extent is the threshold 0.5 has been framed with
\* scale 1.
C16_WitnessThreshold ==
    /\ Placed
    /\ MaxDimOf(box) = R(1, 2)
    /\ placed.scaleFactor = One

(***************************************************************************)
(*   BungieAuth.js : token storage, fetchWithAuth, the API calls; and      *)
(*   index.js : init up to the character selector                          *)
(*                                                                         *)
(* A localStorage key is a sequence: empty when the key is absent, else    *)
(* holding the stored object.  Time is counted in seconds.  An access      *)
(* token is named by the account it was issued to.                         *)
(***************************************************************************)

Accounts == {"a", "b"}

\* Variant: the stored tokens are returned whatever the time.
getStoredTokensNoExpiry(ts, t) == ts

\* getStoredTokens(): null (the empty sequence) when nothing is stored or
\* the stored tokens have expired.
getStoredTokens(ts, t) ==
    IF ts = <<>> THEN <<>>
    ELSE IF ts[1].expiresAt # 0 /\ t > ts[1].expiresAt THEN <<>>
    ELSE ts

\* storeTokens(tokenResponse): what the token key holds afterwards.
storeTokens(tokenResponse, t) ==
    <<[accessToken |-> tokenResponse.access_token,
       expiresAt |-> t + tokenResponse.expires_in,
       membershipId |-> tokenResponse.membership_id]>>

isAuthenticated(ts, t) == getStoredTokens(ts, t) # <<>>

\* The part of the state the API functions work on.
AuthWorld == [tokenStore |-> tokenStore, memberStore |-> memberStore, reqs |-> reqs]

\* Variant: only the membership key is removed.
clearMembershipOnly(w) == [w EXCEPT !.memberStore = <<>>]

\* clearTokens(): both keys are removed.
clearTokens(w) == [w EXCEPT !.tokenStore = <<>>, !.memberStore = <<>>]

\* A caller's call: the function called (op), where it stands (pc), the
\* token sent (bearer), the fetches made (sent), the HTTP status received
\* (0: none), and how it ended: "returned" with a value, or the message of
\* the Error thrown.
IdleReq ==
    [op |-> "none", pc |-> "idle", bearer |-> "", sent |-> 0, status |-> 0,
     outcome |-> "none", value |-> ""]

Throw(r, message) == [r EXCEPT !.pc = "done", !.outcome = message]
Return(r, v)      == [r EXCEPT !.pc = "done", !.outcome = "returned", !.value = v]

\* fetchWithAuth up to its await fetch(...): 'Not authenticated' without
\* tokens, else one request carrying the access token.
FetchWithAuth(w, c, t) ==
    LET tokens == getStoredTokens(w.tokenStore, t)
    IN  IF tokens = <<>>
        THEN [w EXCEPT !.reqs[c] = Throw(@, "Not authenticated")]
        ELSE [w EXCEPT !.reqs[c] = [@ EXCEPT !.pc = "fetching",
                                             !.bearer = tokens[1].accessToken,
                                             !.sent = @ + 1]]

\* getCurrentUserMembership() up to its first await: the cached membership,
\* or the memberships request.
GetCurrentUserMembership(w, c, t) ==
    LET w1 == [w EXCEPT !.reqs[c] = [IdleReq EXCEPT !.op = "membership"]]
    IN  IF w.memberStore # <<>>
        THEN [w1 EXCEPT !.reqs[c] = Return(@, w.memberStore[1].membershipId)]
        ELSE FetchWithAuth(w1, c, t)

\* getCharacterEquipment(membershipType, membershipId) up to its await.
GetCharacterEquipment(w, c, t) ==
    FetchWithAuth([w EXCEPT !.reqs[c] = [IdleReq EXCEPT !.op = "profile"]], c, t)

\* What the server answers: an HTTP status and, in a 200 body, an ErrorCode.
Replies ==
    {[status |-> 401, ErrorCode |-> 0], [status |-> 500, ErrorCode |-> 0],
     [status |-> 200, ErrorCode |-> 1], [status |-> 200, ErrorCode |-> 5]}

\* The rest of the call once the response is there: fetchWithAuth's 401
\* branch, then the caller's checks; the memberships call caches the
\* membership of the account the token belongs to.
Receive(w, c, reply) ==
    LET r  == [w.reqs[c] EXCEPT !.status = reply.status]
        w1 == [w EXCEPT !.reqs[c] = r]
    IN  IF reply.status = 401
        THEN [clearTokens(w1) EXCEPT !.reqs[c] = Throw(@, "Authentication expired")]
        ELSE IF reply.status # 200
        THEN [w1 EXCEPT !.reqs[c] = Throw(@, "Failed to get")]
        ELSE IF reply.ErrorCode # 1
        THEN [w1 EXCEPT !.reqs[c] = Throw(@, "Bungie API error")]
        ELSE IF r.op = "membership"
        THEN [w1 EXCEPT !.memberStore = <<[membershipId |-> r.bearer]>>,
                        !.reqs[c] = Return(@, r.bearer)]
        ELSE [w1 EXCEPT !.reqs[c] = Return(@, "profile")]

\* The callers: init of this page, and the init of another page of the
\* site, which shares localStorage.
Callers == {"init", "tab"}

CommitAuth(w) ==
    /\ tokenStore' = w.tokenStore
    /\ memberStore' = w.memberStore
    /\ reqs' = w.reqs

\* What init shows: the scene, the status line and window.modelLoaded.
Shown ==
    [scene |-> scene, status |-> status, modelLoaded |-> modelLoaded,
     loadingEl |-> loadingEl]

CommitShown(v) ==
    /\ scene' = v.scene
    /\ status' = v.status
    /\ modelLoaded' = v.modelLoaded
    /\ loadingEl' = v.loadingEl

ManifestVars == <<loads, tgxReady, store, cache, inflight, walks, calls,
                  resolved, warned>>
OtherVars    == <<parseVars, ManifestVars, boneVars, frameVars, extraVars>>

\* loadModel(ITEM_HASH) up to its return.
LoadTestModel(v) == [v EXCEPT !.status = Status("Cargando modelo ...")]

\* addMeshToScene(mesh): the mesh, wrapped in a characterGroup, goes through
\* addGroupToScene.
AddMeshToScene(v, framed) ==
    AddGroupToScene(v, [name |-> "characterGroup", load |-> "test",
                        children |-> <<[name |-> "item", itemHash |-> 0]>>],
                    framed)

\* The catch of init: the error status, then the test model is loaded.
CatchProfileError(v) ==
    LoadTestModel([v EXCEPT !.status =
                      Status("Error cargando perfil. Usa modelo de prueba.")])

\* A login completes: handleOAuthCallback stores the tokens of account a.
Login(a, ttl) ==
    /\ tokenStore' = storeTokens([access_token |-> a, expires_in |-> ttl,
                                  membership_id |-> a], now)
    /\ UNCHANGED <<memberStore, now, reqs, boot>>
    /\ UNCHANGED <<scene, status, modelLoaded, loadingEl>>
    /\ UNCHANGED OtherVars

MaxTime == 3        \* the clock stops here
MaxTtl  == 2        \* the longest expires_in of a token response

Tick ==
    /\ now < MaxTime
    /\ now' = now + 1
    /\ UNCHANGED <<tokenStore, memberStore, reqs, boot>>
    /\ UNCHANGED <<scene, status, modelLoaded, loadingEl>>
    /\ UNCHANGED OtherVars

\* init() runs to its first await: the membership call when authenticated,
\* else the test model.
InitRun ==
    /\ boot = "start"
    /\ IF isAuthenticated(tokenStore, now)
       THEN /\ CommitAuth(GetCurrentUserMembership(AuthWorld, "init", now))
            /\ CommitShown([Shown EXCEPT !.status =
                              Status("Obteniendo datos del perfil...")])
            /\ boot' = "membership"
       ELSE /\ CommitAuth(AuthWorld)
            /\ CommitShown(LoadTestModel([Shown EXCEPT !.status =
                  Status("Inicia sesión para cargar tu personaje, o usa el modelo de prueba")]))
            /\ boot' = "guestModel"
    /\ UNCHANGED now
    /\ UNCHANGED OtherVars

\* await getCurrentUserMembership() resumes: the profile call, or the catch.
InitAfterMembership ==
    /\ boot = "membership"
    /\ reqs["init"].pc = "done"
    /\ IF reqs["init"].outcome = "returned"
       THEN /\ CommitAuth(GetCharacterEquipment(AuthWorld, "init", now))
            /\ CommitShown(Shown)
            /\ boot' = "profile"
       ELSE /\ CommitAuth(AuthWorld)
            /\ CommitShown(CatchProfileError(Shown))
            /\ boot' = "fallbackModel"
    /\ UNCHANGED now
    /\ UNCHANGED OtherVars

\* await getCharacterEquipment(...) resumes: the selector, or the catch.
InitAfterProfile ==
    /\ boot = "profile"
    /\ reqs["init"].pc = "done"
    /\ IF reqs["init"].outcome = "returned"
       THEN /\ CommitShown(Shown)
            /\ boot' = "selector"
       ELSE /\ CommitShown(CatchProfileError(Shown))
            /\ boot' = "fallbackModel"
    /\ UNCHANGED <<tokenStore, memberStore, reqs, now>>
    /\ UNCHANGED OtherVars

\* The test model's loadModel resolves: addMeshToScene.
TestModelLoaded(framed) ==
    /\ boot \in {"guestModel", "fallbackModel"}
    /\ CommitShown(AddMeshToScene(Shown, framed))
    /\ boot' = IF boot = "guestModel" THEN "guestShown" ELSE "fallbackShown"
    /\ UNCHANGED <<tokenStore, memberStore, reqs, now>>
    /\ UNCHANGED OtherVars

\* The test model's loadModel rejects.
TestModelFailed ==
    /\ boot \in {"guestModel", "fallbackModel"}
    /\ CommitShown([Shown EXCEPT !.status =
          IF boot = "guestModel" THEN Status("Error cargando modelo de prueba")
          ELSE Status("Error cargando modelo")])
    /\ boot' = IF boot = "guestModel" THEN "guestFailed" ELSE "fallbackFailed"
    /\ UNCHANGED <<tokenStore, memberStore, reqs, now>>
    /\ UNCHANGED OtherVars

\* The other page asks for the membership.
TabCall ==
    /\ reqs["tab"].pc = "idle"
    /\ CommitAuth(GetCurrentUserMembership(AuthWorld, "tab", now))
    /\ UNCHANGED <<now, boot>>
    /\ UNCHANGED <<scene, status, modelLoaded, loadingEl>>
    /\ UNCHANGED OtherVars

\* The other page is done with the result.
TabReturn ==
    /\ reqs["tab"].pc = "done"
    /\ reqs' = [reqs EXCEPT !["tab"] = IdleReq]
    /\ UNCHANGED <<tokenStore, memberStore, now, boot>>
    /\ UNCHANGED <<scene, status, modelLoaded, loadingEl>>
    /\ UNCHANGED OtherVars

\* The server's reply to a request in flight arrives.
Respond(c, reply) ==
    /\ reqs[c].pc = "fetching"
    /\ CommitAuth(Receive(AuthWorld, c, reply))
    /\ UNCHANGED <<now, boot>>
    /\ UNCHANGED <<scene, status, modelLoaded, loadingEl>>
    /\ UNCHANGED OtherVars

InitAuth ==
    /\ tokenStore = <<>>
    /\ memberStore = <<>>
    /\ now = 1
    /\ reqs = [c \in Callers |-> IdleReq]
    /\ boot = "start"
    /\ scene = <<>>
    /\ status = Status("")
    /\ modelLoaded = FALSE
    /\ loadingEl = "shown"
    /\ loads = <<>> /\ tgxReady = FALSE /\ store = <<>> /\ cache = <<>>
    /\ inflight = {} /\ walks = <<>> /\ calls = <<>> /\ resolved = {}
    /\ warned = <<>>
    /\ ParseIdle
    /\ BonesIdle
    /\ FrameIdle
    /\ ExtraIdle

NextAuth ==
    \/ \E a \in Accounts, ttl \in 1 .. MaxTtl : Login(a, ttl)
    \/ Tick
    \/ InitRun
    \/ InitAfterMembership
    \/ InitAfterProfile
    \/ \E framed \in BOOLEAN : TestModelLoaded(framed)
    \/ TestModelFailed
    \/ TabCall
    \/ TabReturn
    \/ \E c \in Callers, reply \in Replies : Respond(c, reply)

SpecAuth == InitAuth /\ [][NextAuth]_vars

(***************************************************************************)
(*             Claims about authentication and the start of init           *)
(***************************************************************************)

\* init's try block failed: the membership or the profile call threw.
PipelineFailed == boot \in {"fallbackModel", "fallbackShown", "fallbackFailed"}

\* C19: after a pipeline-level failure of a load (authentication expiry, a
\* failed membership or profile fetch) no model is placed in the scene.
C19_PipelineFailurePlacesNoModel ==
    PipelineFailed => scene = <<>>

\* C20: a call whose request got a 401 has thrown 'Authentication expired'
\* after exactly one request; as the 401 is handled the stored tokens and
\* the cached membership are both removed and isAuthenticated() is false;
\* and isAuthenticated() goes from false to true only when new tokens are
\* stored.
C20_UnauthorizedClearsAuth ==
    /\ [](\A c \in Callers :
            reqs[c].status = 401 =>
                /\ reqs[c].pc = "done"
                /\ reqs[c].outcome = "Authentication expired"
                /\ reqs[c].sent = 1)
    /\ [][/\ \A c \in Callers :
               (reqs[c].pc = "fetching" /\ reqs'[c].status = 401) =>
                   /\ tokenStore' = <<>>
                   /\ memberStore' = <<>>
                   /\ ~isAuthenticated(tokenStore', now')
          /\ (~isAuthenticated(tokenStore, now) /\ isAuthenticated(tokenStore', now'))
                => (tokenStore' # <<>> /\ tokenStore' # tokenStore)]_vars

\* init's profile request, made with a cached membership and live tokens,
\* got a 401; tokens and membership are gone and the catch has run.
C20_Witness ==
    /\ reqs["init"].op = "profile"
    /\ reqs["init"].status = 401
    /\ reqs["init"].sent = 1
    /\ boot = "fallbackModel"
    /\ tokenStore = <<>>
    /\ memberStore = <<>>

\* The stored tokens are past their expiresAt.
Expired == tokenStore # <<>> /\ now > tokenStore[1].expiresAt

\* Caller c calls an API function in this step.
Calls(c) ==
    /\ reqs[c].pc \in {"idle", "done"}
    /\ reqs'[c] # reqs[c]
    /\ reqs'[c].pc # "idle"

\* C25: while the stored tokens are past their expiresAt, getStoredTokens()
\* is null and isAuthenticated() false; a call made then sends no request
\* and throws 'Not authenticated' as it reaches fetchWithAuth (a membership
\* call answered from the cache does not reach it); and the tokens stay
\* expired until the token key is written again.
C25_ExpiredTokensAreNoTokens ==
    /\ [](Expired => /\ getStoredTokens(tokenStore, now) = <<>>
                     /\ ~isAuthenticated(tokenStore, now))
    /\ [][Expired =>
            /\ \A c \in Callers :
                  Calls(c) =>
                      /\ reqs'[c].pc = "done"
                      /\ reqs'[c].sent = 0
                      /\ \/ reqs'[c].outcome = "Not authenticated"
                         \/ /\ reqs'[c].op = "membership"
                            /\ memberStore # <<>>
                            /\ reqs'[c].outcome = "returned"
            /\ Expired' \/ tokenStore' # tokenStore
            /\ isAuthenticated(tokenStore', now') =>
                  (tokenStore' # <<>> /\ tokenStore' # tokenStore)]_vars

\* The tokens expired while init awaited the membership; its profile call
\* then threw 'Not authenticated' without a request.
C25_Witness ==
    /\ Expired
    /\ reqs["init"].op = "profile"
    /\ reqs["init"].outcome = "Not authenticated"
    /\ reqs["init"].sent = 0
    /\ boot = "fallbackModel"

\* C28: the cached membership is that of the account of the stored tokens,
\* so it is gone once those tokens are removed or replaced; and a membership
\* that getCurrentUserMembership returns, from the cache or the network, is
\* that of the account of the tokens stored at that time.
C28_MembershipOfStoredTokens ==
    /\ [](memberStore # <<>> =>
            /\ tokenStore # <<>>
            /\ memberStore[1].membershipId = tokenStore[1].membershipId)
    /\ [][\A c \in Callers :
            (/\ reqs'[c] # reqs[c]
             /\ reqs'[c].op = "membership"
             /\ reqs'[c].outcome = "returned") =>
                /\ tokenStore' # <<>>
                /\ reqs'[c].value = tokenStore'[1].membershipId]_vars


(***************************************************************************)
(*              index.js : addGroupToScene, called on its own              *)
(*                                                                         *)
(* The page starts with an empty scene, window.modelLoaded false and the   *)
(* #loading overlay shown (or absent from the page); addGroupToScene is    *)
(* then called with character groups, and its framing completes or throws. *)
(***************************************************************************)

MaxMeshes == 3      \* meshes of a character group

SceneItems  == {[name |-> "item", itemHash |-> 100 + k] : k \in 1..MaxMeshes}
SceneGroups ==
    {[name |-> "characterGroup", load |-> l, children |-> ch] :
        l \in Loads, ch \in SeqsUpTo(SceneItems, MaxMeshes) \ {<<>>}}

InitScene ==
    /\ scene = <<>>
    /\ status \in {Status("Cargando personaje..."), Status("Cargando: %"),
                   Status("Cargando equipo: n/t")}
    /\ modelLoaded = FALSE
    /\ loadingEl \in {"shown", "absent"}
    /\ called = <<>>
    /\ DyeIdle
    /\ OAuthIdle
    /\ loads = <<>> /\ tgxReady = FALSE /\ store = <<>> /\ cache = <<>>
    /\ inflight = {} /\ walks = <<>> /\ calls = <<>> /\ resolved = {}
    /\ warned = <<>>
    /\ ParseIdle
    /\ BonesIdle
    /\ FrameIdle
    /\ AuthIdle

\* addGroupToScene(group) from its call to its return.
AddGroup(group, framed) ==
    /\ CommitShown(AddGroupToScene(Shown, group, framed))
    /\ called' = <<[group |-> group, framed |-> framed]>>
    /\ UNCHANGED <<parseVars, ManifestVars, boneVars, frameVars, authVars>>
    /\ UNCHANGED <<dyeVars, oauthVars>>

NextScene == \E group \in SceneGroups, framed \in BOOLEAN : AddGroup(group, framed)

SpecScene == InitScene /\ [][NextScene]_vars

\* C26: when addGroupToScene(group) returns, the group is in the scene, the
\* status text is empty and the loading overlay is not shown, whether the
\* framing threw or not; window.modelLoaded is true after a framing that
\* completed and is left as it was after a framing that threw.
C26_GroupShownWhateverFraming ==
    [][LET c == called'[1]
       IN  /\ \E n \in DOMAIN scene' : scene'[n] = c.group
           /\ status' = Status("")
           /\ loadingEl' # "shown"
           /\ c.framed => modelLoaded'
           /\ ~c.framed => (modelLoaded' = modelLoaded)]_vars

\* A first call whose framing threw has returned: the group is in the scene,
\* the status is empty, the overlay hidden, and window.modelLoaded is false.
C26_Witness ==
    /\ called # <<>>
    /\ ~called[1].framed
    /\ scene = <<called[1].group>>
    /\ status = Status("")
    /\ loadingEl = "none"
    /\ ~modelLoaded

(***************************************************************************)
(*     DestinyMaterial.js : createDestinyMaterial and updateDestinyDye     *)
(*                                                                         *)
(* A parameter left out of params is a field left out of the record; a     *)
(* texture is <<"texture">>, null is Null; a colour is given as a number   *)
(* and THREE.Color(n) is a Color object of that hex value.  material.color *)
(* is <<>> while it is the one MeshStandardMaterial was constructed with.  *)
(***************************************************************************)

DefaultPrimaryColor   == 8947848    \* 0x888888
DefaultSecondaryColor == 4473924    \* 0x444444

Texture  == <<"texture">>
Color(n) == [isColor |-> TRUE, hex |-> n]

\* const { name = default, ... } = params
Param(params, name, default) ==
    IF name \in DOMAIN params THEN params[name] ELSE default

createDestinyMaterial(params) ==
    LET diffuseMap      == Param(params, "diffuseMap", Null)
        gearstackMap    == Param(params, "gearstackMap", Null)
        detailMap       == Param(params, "detailMap", Null)
        primaryColor    == Param(params, "primaryColor", DefaultPrimaryColor)
        secondaryColor  == Param(params, "secondaryColor", DefaultSecondaryColor)
        usePrimaryColor == Param(params, "usePrimaryColor", TRUE)
    IN  [map      |-> diffuseMap,
         color    |-> IF diffuseMap = Null /\ (gearstackMap # Null \/ detailMap # Null)
                      THEN <<Color(IF usePrimaryColor THEN primaryColor
                                   ELSE secondaryColor)>>
                      ELSE <<>>,
         userData |-> [destinyParams |->
                          [gearstackMap    |-> gearstackMap,
                           detailMap       |-> detailMap,
                           primaryColor    |-> primaryColor,
                           secondaryColor  |-> secondaryColor,
                           usePrimaryColor |-> usePrimaryColor]]]

\* updateDestinyDye(material, primaryColor, secondaryColor, usePrimary): the
\* material afterwards, and whether the warning was logged.
updateDestinyDye(mat, primaryColor, secondaryColor, usePrimary) ==
    IF "destinyUniforms" \notin DOMAIN mat.userData
    THEN [material |-> mat, warned |-> TRUE]
    ELSE LET uniforms ==
                 [primaryColor    |-> [value |-> Color(primaryColor)],
                  secondaryColor  |-> [value |-> Color(secondaryColor)],
                  usePrimaryColor |-> [value |-> IF usePrimary THEN 1 ELSE 0]]
             m1 == [mat EXCEPT !.userData.destinyUniforms = uniforms]
         IN  [material |->
                 IF "shader" \in DOMAIN mat.userData
                 THEN [m1 EXCEPT !.userData.shader.uniforms = uniforms]
                 ELSE m1,
              warned |-> FALSE]

MaxColor == 2       \* the dye colours are 1..MaxColor

DyeColors == 1 .. MaxColor

\* The params objects: each texture and each dye parameter given or not.
MaterialParams ==
    UNION {[names -> {Texture}] : names \in SUBSET {"diffuseMap", "gearstackMap", "detailMap"}}
MergeParams(a, b) ==
    [k \in DOMAIN a \cup DOMAIN b |-> IF k \in DOMAIN a THEN a[k] ELSE b[k]]
ColorParams(name) == {<<>>} \cup {[k \in {name} |-> c] : c \in DyeColors}
FlagParams        == {<<>>} \cup {[k \in {"usePrimaryColor"} |-> u] : u \in BOOLEAN}
DyeParams ==
    {MergeParams(MergeParams(p, s), u) :
        p \in ColorParams("primaryColor"), s \in ColorParams("secondaryColor"),
        u \in FlagParams}
CreateParams == {MergeParams(t, d) : t \in MaterialParams, d \in DyeParams}

\* The usePrimary argument: given, or left out (usePrimary = true).
UsePrimaryArgs == {<<>>, <<TRUE>>, <<FALSE>>}
UsePrimary(arg) == IF arg = <<>> THEN TRUE ELSE arg[1]

InitDye ==
    /\ material = <<>>
    /\ dyed = <<>>
    /\ ParseIdle
    /\ LoadsIdle
    /\ BonesIdle
    /\ FrameIdle
    /\ AuthIdle
    /\ SceneIdle
    /\ OAuthIdle

\* material = createDestinyMaterial(params)
CreateMaterial(params) ==
    /\ material = <<>>
    /\ material' = <<createDestinyMaterial(params)>>
    /\ UNCHANGED dyed
    /\ UNCHANGED <<parseVars, loadVars, boneVars, frameVars, authVars,
                   sceneVars, oauthVars>>

\* updateDestinyDye(material, primaryColor, secondaryColor[, usePrimary])
UpdateDye(primaryColor, secondaryColor, arg) ==
    /\ material # <<>>
    /\ LET r == updateDestinyDye(material[1], primaryColor, secondaryColor,
                                 UsePrimary(arg))
       IN  /\ material' = <<r.material>>
           /\ dyed' = <<[primaryColor |-> primaryColor,
                         secondaryColor |-> secondaryColor,
                         usePrimary |-> UsePrimary(arg),
                         warned |-> r.warned]>>
    /\ UNCHANGED <<parseVars, loadVars, boneVars, frameVars, authVars,
                   sceneVars, oauthVars>>

NextDye ==
    \/ \E params \in CreateParams : CreateMaterial(params)
    \/ \E p \in DyeColors, s \in DyeColors, arg \in UsePrimaryArgs : UpdateDye(p, s, arg)

SpecDye == InitDye /\ [][NextDye]_vars

\* The dye a material holds: its uniforms when it has them, else the
\* parameters stored at creation.
StoredDye(mat) ==
    IF "destinyUniforms" \in DOMAIN mat.userData
    THEN [primaryColor   |-> mat.userData.destinyUniforms.primaryColor.value.hex,
          secondaryColor |-> mat.userData.destinyUniforms.secondaryColor.value.hex,
          usePrimary     |-> mat.userData.destinyUniforms.usePrimaryColor.value = 1]
    ELSE [primaryColor   |-> mat.userData.destinyParams.primaryColor,
          secondaryColor |-> mat.userData.destinyParams.secondaryColor,
          usePrimary     |-> mat.userData.destinyParams.usePrimaryColor]

\* C23: after updateDestinyDye(material, primary, secondary, usePrimary) on
\* a material that createDestinyMaterial returned, the primary colour, the
\* secondary colour and the use-primary flag the material holds are the new
\* values.
C23_UpdateDyeStoresNewValues ==
    dyed # <<>> =>
        StoredDye(material[1]) = [primaryColor   |-> dyed[1].primaryColor,
                                  secondaryColor |-> dyed[1].secondaryColor,
                                  usePrimary     |-> dyed[1].usePrimary]

(***************************************************************************)
(*        BungieAuth.js : startOAuthFlow and handleOAuthCallback           *)
(*                                                                         *)
(* The browser shows the app page, Bungie's login page, or the callback    *)
(* page with some query; the query of a callback is whatever the link      *)
(* that led there carries.  An authorization code is named by the account  *)
(* it was issued for.  A query parameter left out is a field left out, and *)
(* URLSearchParams.get and sessionStorage.getItem give <<>> for null.      *)
(***************************************************************************)

OAuthStates == {"s1", "s2"}     \* what Math.random().toString(36)... gives

QueryParams(name, values) == {<<>>} \cup {[k \in {name} |-> v] : v \in values}
Queries ==
    {MergeParams(MergeParams(c, st), e) :
        c  \in QueryParams("code", Accounts),
        st \in QueryParams("state", OAuthStates),
        e  \in QueryParams("error", {"access_denied"})}

\* urlParams.get(name)
Get(q, name) == IF name \in DOMAIN q THEN <<q[name]>> ELSE <<>>

Page(name, q) == [page |-> name, query |-> q]

\* The call of the page: where it stands, how it ended, the token requests
\* it sent, and (ghost) the query and the saved state it started with.
IdleCallback ==
    [pc |-> "idle", outcome |-> "none", sent |-> 0, query |-> <<>>,
     saved |-> <<>>]

\* handleOAuthCallback() up to its await fetch(...): the call, and the
\* oauth_state key, afterwards.
handleOAuthCallback(q, storedState) ==
    LET c == [IdleCallback EXCEPT !.query = q, !.saved = storedState]
    IN  IF Get(q, "error") # <<>>
        THEN [cb |-> [c EXCEPT !.pc = "done", !.outcome = "OAuth error"],
              oauthState |-> storedState]
        ELSE IF Get(q, "code") = <<>>
        THEN [cb |-> [c EXCEPT !.pc = "done", !.outcome = "returned null"],
              oauthState |-> storedState]
        ELSE IF Get(q, "state") # storedState
        THEN [cb |-> [c EXCEPT !.pc = "done", !.outcome = "Invalid OAuth state"],
              oauthState |-> storedState]
        ELSE [cb |-> [c EXCEPT !.pc = "exchanging", !.sent = @ + 1],
              oauthState |-> <<>>]

InitOAuth ==
    /\ oauthState = <<>>
    /\ location = Page("app", <<>>)
    /\ cb = IdleCallback
    /\ tokenStore = <<>>
    /\ memberStore = <<>>
    /\ now = 1
    /\ reqs = <<>>
    /\ boot = ""
    /\ ParseIdle
    /\ LoadsIdle
    /\ BonesIdle
    /\ FrameIdle
    /\ SceneIdle
    /\ DyeIdle

OAuthOthers ==
    <<parseVars, loadVars, boneVars, frameVars, sceneVars, dyeVars,
      memberStore, now, reqs, boot>>

\* startOAuthFlow(): the login button of the app page is clicked.
StartOAuthFlow(state) ==
    /\ location.page = "app"
    /\ oauthState' = <<state>>
    /\ location' = Page("bungie", <<>>)
    /\ cb' = IdleCallback
    /\ UNCHANGED tokenStore
    /\ UNCHANGED OAuthOthers

\* The browser is sent to the callback page: by Bungie's redirect, or by
\* any link, with the query the link carries.
Arrive(q) ==
    /\ location' = Page("callback", q)
    /\ cb' = IdleCallback
    /\ UNCHANGED <<oauthState, tokenStore>>
    /\ UNCHANGED OAuthOthers

\* The browser goes (back) to the app page.
OpenApp ==
    /\ location.page # "app"
    /\ location' = Page("app", <<>>)
    /\ cb' = IdleCallback
    /\ UNCHANGED <<oauthState, tokenStore>>
    /\ UNCHANGED OAuthOthers

\* The callback page calls handleOAuthCallback().
HandleOAuthCallback ==
    /\ location.page = "callback"
    /\ cb.pc = "idle"
    /\ LET r == handleOAuthCallback(location.query, oauthState)
       IN  /\ cb' = r.cb
           /\ oauthState' = r.oauthState
    /\ UNCHANGED <<location, tokenStore>>
    /\ UNCHANGED OAuthOthers

\* The token endpoint answers: the tokens are stored and the query is
\* cleared, or 'Token exchange failed' is thrown.
ExchangeRespond(ok, ttl) ==
    /\ cb.pc = "exchanging"
    /\ IF ok
       THEN /\ tokenStore' = storeTokens([access_token |-> cb.query.code,
                                          expires_in |-> ttl,
                                          membership_id |-> cb.query.code], now)
            /\ cb' = [cb EXCEPT !.pc = "done", !.outcome = "returned tokens"]
            /\ location' = Page("callback", <<>>)
       ELSE /\ cb' = [cb EXCEPT !.pc = "done", !.outcome = "Token exchange failed"]
            /\ UNCHANGED <<tokenStore, location>>
    /\ UNCHANGED oauthState
    /\ UNCHANGED OAuthOthers

NextOAuth ==
    \/ \E state \in OAuthStates : StartOAuthFlow(state)
    \/ \E q \in Queries : Arrive(q)
    \/ OpenApp
    \/ HandleOAuthCallback
    \/ \E ok \in BOOLEAN, ttl \in 1 .. MaxTtl : ExchangeRespond(ok, ttl)

SpecOAuth == InitOAuth /\ [][NextOAuth]_vars

\* The call c was made with a state parameter equal to the state that
\* startOAuthFlow had saved.
StateMatches(c) == c.saved # <<>> /\ Get(c.query, "state") = c.saved

\* C24: handleOAuthCallback stores tokens only when the callback's state is
\* the state startOAuthFlow saved; a callback with a code whose state does
\* not match, a callback with no flow started included, has thrown 'Invalid
\* OAuth state' with no token request sent and leaves the stored tokens as
\* they were; and when the states match the saved state is removed as the
\* exchange starts, so the same callback replayed is rejected.
C24_TokensOnlyForMatchingState ==
    /\ [](( /\ cb.pc # "idle"
            /\ Get(cb.query, "error") = <<>>
            /\ Get(cb.query, "code") # <<>>
            /\ ~StateMatches(cb))
          => (cb.outcome = "Invalid OAuth state" /\ cb.sent = 0))
    /\ [][/\ (tokenStore' # tokenStore) => StateMatches(cb')
          /\ (cb.pc = "idle" /\ cb'.pc = "exchanging") => oauthState' = <<>>]_vars

=============================================================================
